---- MODULE Spec2Model ----
(***************************************************************************)
(* Model of ConstellationGraph::new (rust/src/gd/graph/graph_generate.rs): *)
(* Poisson-disk-like point sampling with leniency, nearest-centroid        *)
(* clustering, per-cluster nearest-neighbour graphs, graph merging and     *)
(* island (strongly connected component) extraction.                       *)
(*                                                                         *)
(* Abstractions.                                                           *)
(*  - Reals: coordinates are integer lattice points of the sphere of       *)
(*    radius Radius; angles are in milliradians and lengths in 1/1000 of   *)
(*    the lattice unit (fixed point), squared distances are exact.         *)
(*  - Xoshiro256Plus is a 12-bit linear congruential generator; from_rng   *)
(*    seeds the child from four successive outputs of the parent.          *)
(*  - kiddo k-d trees (bucket size 32) hold at most one leaf here; a leaf  *)
(*    is scanned in insertion order, so ties go to the earliest entry.     *)
(*  - Node indices, island members and cluster indices are 0-based as in   *)
(*    the source; TLA+ sequences are 1-based, see At.                      *)
(***************************************************************************)
EXTENDS Integers, Sequences, FiniteSets, TLC

VARIABLES
    n,                  \* requested point count
    max_neighbor_count, \* requested neighbour bound
    seed,               \* seed of the generator handed to new
    rng,                \* state of the generator handed to new
    pc,                 \* position inside new
    chord,              \* chosen chord (index of the variant)
    semitone_offset,    \* chosen semitone offset
    points,             \* generate_points_poisson: accepted points
    tree,               \* generate_points_poisson: k-d tree entries <<point, id>>
    max_angle,          \* generate_points_poisson: target angle (mrad)
    angle,              \* angle drawn for the current point (mrad)
    min_distance,       \* minimum distance in force (1/1000 units)
    iteration,          \* rejected candidates since the last reset
    relaxations,        \* number of leniency steps taken so far
    k,                  \* cluster_voronoi: requested cluster count
    centroids,          \* cluster_voronoi: centroids in the order chosen
    clusters,           \* cluster_voronoi result: sequence of [pts, centroid]
    ci,                 \* connect_clusters_internally: current cluster (0-based)
    pi,                 \* connect_clusters_internally: current point (0-based)
    neighbor_count,     \* connect_clusters_internally: count drawn for the current point
    graph,              \* graph of the current cluster
    graphs,             \* finished per-cluster graphs
    supergraph,         \* merged graph
    islands,            \* tarjan_scc result
    run,                \* 1 for the first call of new, 2 for the repeated call
    first,              \* result of the first call, kept for comparison
    root_rng,           \* AudioGraph::ready: state of the root generator
    shell,              \* AudioGraph::ready: position of the task that awaits the graph
    worker,             \* spawn_rayon_with_result: position of the spawned job
    channel,            \* the flume channel: messages in it, live endpoints
    received,           \* what the awaited future has resolved to
    island_rng,         \* generate_island_data: generator forked from the root
    polls,              \* polls of the future that found it pending
    bpm,                \* AudioState: the bpm field
    bpm_channel,        \* BPM_CHANNEL: the values sent and not yet received
    bpm_sends,          \* number of calls of set_bpm_internal
    ticker,             \* position of the beat_emitter thread
    interval,           \* beat_emitter: the interval in force (ms)
    tick,               \* beat_emitter: tick within the beat
    beat,               \* beat_emitter: beat within the bar
    bar,                \* beat_emitter: bar
    total_ticks,        \* beat_emitter: ticks sent so far
    receivers,          \* TICK_CHANNEL: live receivers
    tick_channel,       \* TICK_CHANNEL: the newest Tick it holds
    last_sent,          \* the Tick most recently passed to tx.send
    drained,            \* beat_emitter: values taken by the last try_iter
    active,             \* AudioNode: the active field
    amplitude_tween,    \* AudioNode: the stored tween (0 for None)
    tweens,             \* the tweens created by play, by number: running, finished or killed
    plays,              \* the play tasks, by number: position, token, finished signal received
    run_queue,          \* the executor of AudioGraph: tasks ready to run, first in first out
    panic_button_cancel, \* AudioGraph: the current cancellation token
    cancelled,          \* the cancellation tokens that have been cancelled
    assert_failed,      \* play: assert_eq!(old_tween, None) has failed
    frame,              \* position within the frame: input, process or tweens
    walk,               \* graph_walk: none, pending, walking or finished
    start_node,         \* graph_walk: node_index
    next_tick,          \* beat_emitter: the tick field of the Tick sent next
    ticks,              \* graph_walk: the unread Ticks of its receiver (their tick fields)
    walkers,            \* walk_node: the branches that wait on an edge
    polling,            \* the poll of the walk task: the branch polled next (0: not running)
    cancelling,         \* the nodes whose cancelling flag is set
    is_cancelled,       \* the panic token of the walk is cancelled
    visit,              \* walk_node: the latest call (its node, the node before, play spawned)
    visits              \* walk_node: the number of calls, counted up to MaxVisits

vars == <<n, max_neighbor_count, seed, rng, pc, chord, semitone_offset, points,
          tree, max_angle, angle, min_distance, iteration, relaxations,
          k, centroids, clusters, ci, pi, neighbor_count, graph, graphs,
          supergraph, islands, run, first, root_rng, shell, worker, channel,
          received, island_rng, polls,
          bpm, bpm_channel, bpm_sends, ticker, interval, tick, beat, bar,
          total_ticks, receivers, tick_channel, last_sent, drained,
          active, amplitude_tween, tweens, plays, run_queue,
          panic_button_cancel, cancelled, assert_failed, frame,
          walk, start_node, next_tick, ticks, walkers, polling, cancelling,
          is_cancelled, visit, visits>>

\* the state of the shell that calls new on a worker thread
shell_vars == <<root_rng, shell, worker, channel, received, island_rng, polls>>

\* the state of one AudioNode, of the play tasks on it, and of the executor
\* and the panic token of AudioGraph
play_vars == <<active, amplitude_tween, tweens, plays, run_queue,
               panic_button_cancel, cancelled, assert_failed, frame>>

\* the state of the ticker thread, its two channels and the bpm field
tick_vars == <<bpm, bpm_channel, bpm_sends, ticker, interval, tick, beat, bar,
               total_ticks, receivers, tick_channel, last_sent, drained>>

\* the state of one graph walk: its task, its branches, the flags of the nodes
walk_vars == <<walk, start_node, next_tick, ticks, walkers, polling,
               cancelling, is_cancelled, visit, visits>>

----------------------------------------------------------------------------
(* Bounds of the model *)

MaxN == 4
MaxSeed == 3
MaxMnc == 4
MaxRelax == 8
MaxPts == 4

----------------------------------------------------------------------------
(* Helpers for 0-based indexing *)

At(s, i) == s[i + 1]

Range(s) == {s[i] : i \in DOMAIN s}

Min(a, b) == IF a < b THEN a ELSE b

----------------------------------------------------------------------------
(* Random generator *)

RngMod == 4096
RngMul == 1229
OutRange == 256

\* Xoshiro256Plus::from_seed
FromSeed(s) == (s * 1663 + 977) % RngMod

\* one step of the generator state
Step(r) == (r * RngMul + 1) % RngMod

\* the value produced from state r, in 0..OutRange-1
Out(r) == r \div (RngMod \div OutRange)

\* rng.random_range(0..m) for m >= 1: the value and the advanced generator
RandomRange(r, m) == [val |-> (Out(r) * m) \div OutRange, rng |-> Step(r)]

\* a child seeded from the operating system's entropy, which differs from one
\* call of new to the next, instead of from the parent
FromOsRng(r) == [child |-> FromSeed(run * 577), rng |-> r]

\* Xoshiro256Plus::from_rng(parent): four outputs of the parent seed the child
FromRng(r) ==
    LET r1 == Step(r)
        r2 == Step(r1)
        r3 == Step(r2)
        r4 == Step(r3)
    IN [child |-> FromSeed(Out(r) + 3 * Out(r1) + 7 * Out(r2) + 13 * Out(r3)),
        rng |-> r4]

----------------------------------------------------------------------------
(* Geometry *)

Radius == 3

Dist2(p, q) ==
    (p[1] - q[1]) * (p[1] - q[1]) + (p[2] - q[2]) * (p[2] - q[2])
        + (p[3] - q[3]) * (p[3] - q[3])

\* lattice points of the sphere of radius Radius, in lexicographic order
SphereSeq ==
    LET w == 2 * Radius + 1
        triple(i) == << (i \div (w * w)) - Radius, ((i \div w) % w) - Radius,
                        (i % w) - Radius >>
        all == [i \in 1..(w * w * w) |-> triple(i - 1)]
    IN SelectSeq(all, LAMBDA p : Dist2(p, <<0, 0, 0>>) = Radius * Radius)

\* sin of x milliradians, in 1/1000 (Taylor polynomial up to x^7)
SinMilli(x) ==
    LET x2 == (x * x) \div 1000
        x3 == (x2 * x) \div 1000
        x5 == (x3 * x2) \div 1000
        x7 == (x5 * x2) \div 1000
    IN x - (x3 \div 6) + (x5 \div 120) - (x7 \div 5040)

\* chord length 2 * radius * sin(angle / 2), in 1/1000 units
ChordLen(a) == 2 * Radius * SinMilli(a \div 2)

\* squared distance d2 (lattice units) compared with a length l (1/1000 units)
CloserThan(d2, l) == d2 * 1000000 < l * l

----------------------------------------------------------------------------
(* generate_points_poisson *)

\* target angle handed to the sampler by generate_points (mrad, scaled to the
\* lattice so that the lattice offers candidates at every angle first drawn)
MaxAngle == 1700

\* rejected candidates after which the constraint is relaxed
IterationLimit == 1000

\* number of distinct values modelled for a draw from a real interval
RealLevels == 5

\* the pole (0, radius, 0)
StartPoint == <<0, Radius, 0>>

\* rng.random_range(0.5..=1.5) * max_angle
DrawAngle(r, ma) ==
    LET d == RandomRange(r, RealLevels)
    IN [val |-> ((500 + 250 * d.val) * ma) \div 1000, rng |-> d.rng]

\* the leniency multiplier taken as 0.1: a tenth of the chord length
MinDistanceTenth(a) == ChordLen(a) \div 10

\* min_distance = 2.0 * radius * (angle / 2.0).sin() * epsilon_mult
InitialMinDistance(a) == (ChordLen(a) * 9) \div 10

\* the factor taken above 1: x *= 1.1
Tightened(x) == (x * 11) \div 10

\* x *= leniency_factor
Relaxed(x) == (x * 9) \div 10

\* The points a rotation of parent by angle a about some axis can produce:
\* those at chord distance at most 2 * radius * sin(a / 2) from the parent
\* (the parent itself when the axis is parallel to it).
Candidates(parent, a) ==
    SelectSeq(SphereSeq,
              LAMBDA q : Dist2(q, parent) * 1000000 <= ChordLen(a) * ChordLen(a))

\* random_unit_axis draws z and theta; the rotation about that axis by the
\* angle takes the parent to one of the candidates
Rotate(r, parent, a) ==
    LET z == RandomRange(r, RealLevels)
        theta == RandomRange(z.rng, RealLevels)
        cands == Candidates(parent, a)
    IN [val |-> At(cands, (z.val * RealLevels + theta.val) % Len(cands)),
        rng |-> theta.rng]

\* a query that looks at the first entry of the index only
HasNeighborWithinFirst(t, q, l) ==
    CloserThan(Dist2(t[1][1], q), l)

\* tree.nearest_n_within(candidate, min_distance^2, 1) is non-empty
HasNeighborWithin(t, q, l) ==
    \E i \in DOMAIN t : CloserThan(Dist2(t[i][1], q), l)

----------------------------------------------------------------------------
(* Values of the fields before they are assigned *)

NoGraph == [nodes |-> <<>>, edges |-> <<>>]

NoResult == [status |-> "none"]

Result ==
    [status |-> pc, chord |-> chord, semitone_offset |-> semitone_offset,
     graph |-> supergraph, islands |-> islands]

Fresh ==
    /\ chord = -1
    /\ semitone_offset = 0
    /\ points = <<>>
    /\ tree = <<>>
    /\ max_angle = 0
    /\ angle = 0
    /\ min_distance = 0
    /\ iteration = 0
    /\ relaxations = 0
    /\ k = 0
    /\ centroids = <<>>
    /\ clusters = <<>>
    /\ ci = 0
    /\ pi = 0
    /\ neighbor_count = 0
    /\ graph = NoGraph
    /\ graphs = <<>>
    /\ supergraph = NoGraph
    /\ islands = <<>>

\* the channel before spawn_rayon_with_result has created it
NoChannel == [msgs |-> <<>>, tx |-> FALSE, rx |-> FALSE]

\* #[init(val = 115.0)] bpm
DefaultBpm == 115

\* no Tick yet
NoTick == [sent |-> FALSE]

\* the autoload is not ready and nothing has touched TICK_CHANNEL: the
\* ticker thread does not exist
NoTicker ==
    /\ bpm = DefaultBpm
    /\ bpm_channel = <<>>
    /\ bpm_sends = 0
    /\ ticker = "unspawned"
    /\ interval = 0
    /\ tick = 0
    /\ beat = 0
    /\ bar = 0
    /\ total_ticks = 0
    /\ receivers = 0
    /\ tick_channel = NoTick
    /\ last_sent = NoTick
    /\ drained = 0

MaxPlays == 3
MaxPanics == 2

\* a play task that has not been spawned
NoPlay == [state |-> "unspawned", token |-> 0, signalled |-> FALSE]

\* the node is silent, nothing has been played, the panic button has not been
\* pressed
NoPlays ==
    /\ active = FALSE
    /\ amplitude_tween = 0
    /\ tweens = [t \in 1..MaxPlays |-> "none"]
    /\ plays = [p \in 1..MaxPlays |-> NoPlay]
    /\ run_queue = <<>>
    /\ panic_button_cancel = 1
    /\ cancelled = {}
    /\ assert_failed = FALSE
    /\ frame = "input"

\* the future of spawn_rayon_with_result before it has resolved
Pending == [state |-> "pending"]

\* new is called directly (as by the tests), not through the shell
NoShell ==
    /\ root_rng = 0
    /\ shell = "none"
    /\ worker = "none"
    /\ channel = NoChannel
    /\ received = Pending
    /\ island_rng = 0
    /\ polls = 0

\* walk_node has not been called
NoVisit == [node_idx |-> -1, last |-> -1, play |-> FALSE, nth |-> 0]

\* no node has been clicked
NoWalk ==
    /\ walk = "none"
    /\ start_node = -1
    /\ next_tick = 0
    /\ ticks = <<>>
    /\ walkers = <<>>
    /\ polling = 0
    /\ cancelling = {}
    /\ is_cancelled = FALSE
    /\ visit = NoVisit
    /\ visits = 0

----------------------------------------------------------------------------
(* cluster_voronoi *)

\* points per cluster aimed at: k = ceil(n / 15)
PointsPerCluster == 15

\* the quotient rounded down: n / 15
ClusterCountFloor(m) == m \div PointsPerCluster

\* (n as f64 / 15.0).ceil() as usize
ClusterCount(m) == (m + PointsPerCluster - 1) \div PointsPerCluster

\* rand's index sampling of `amount` distinct indices below `length`
\* (Floyd's algorithm, the one used for amounts up to 11): for j from
\* length - amount to length - 1 draw t in 0..=j; an earlier t is replaced
\* by j; t is pushed
RECURSIVE SampleFloyd(_, _, _, _)
SampleFloyd(j, length, indices, r) ==
    IF j >= length
    THEN [val |-> indices, rng |-> r]
    ELSE LET t == RandomRange(r, j + 1)
             upd == [i \in DOMAIN indices |->
                        IF indices[i] = t.val THEN j ELSE indices[i]]
         IN SampleFloyd(j + 1, length, Append(upd, t.val), t.rng)

\* points.choose_multiple(&mut rng, k): indices of the chosen elements
ChooseMultiple(length, count, r) ==
    LET amount == Min(count, length)
    IN SampleFloyd(length - amount, length, <<>>, r)

\* the comparison reversed: the entry at the greatest distance
FarthestOne(cs, q) ==
    IF cs = <<>>
    THEN 0
    ELSE CHOOSE i \in 0..(Len(cs) - 1) :
            \A j \in 0..(Len(cs) - 1) :
                \/ Dist2(At(cs, i), q) > Dist2(At(cs, j), q)
                \/ Dist2(At(cs, i), q) = Dist2(At(cs, j), q) /\ i <= j

\* kdtree.nearest_one(q).item over entries <<cs[i], i - 1>>: the earliest
\* entry at the least distance; item 0 when the tree is empty
NearestOne(cs, q) ==
    IF cs = <<>>
    THEN 0
    ELSE CHOOSE i \in 0..(Len(cs) - 1) :
            \A j \in 0..(Len(cs) - 1) :
                \/ Dist2(At(cs, i), q) < Dist2(At(cs, j), q)
                \/ Dist2(At(cs, i), q) = Dist2(At(cs, j), q) /\ i <= j

\* for p in points { clusters[closest_centroid].0.push(p) }; an index outside
\* the vector panics
RECURSIVE AssignPoints(_, _, _)
AssignPoints(ps, cents, cs) ==
    IF ps = <<>>
    THEN [panic |-> FALSE, clusters |-> cs]
    ELSE LET c == NearestOne(cents, Head(ps))
         IN IF c >= Len(cs)
            THEN [panic |-> TRUE, clusters |-> cs]
            ELSE AssignPoints(Tail(ps), cents,
                              [cs EXCEPT ![c + 1].pts = Append(@, Head(ps))])

\* the sort key OrderedFloat(-cluster.1.y)
SortKey(c) == 0 - c.centroid[2]

\* insertion before the entries of equal key: an unstable sort
InsertUnstable(sorted, c) ==
    LET later == {i \in DOMAIN sorted : SortKey(sorted[i]) >= SortKey(c)}
        pos == IF later = {}
               THEN Len(sorted) + 1
               ELSE CHOOSE i \in later : \A j \in later : i <= j
    IN SubSeq(sorted, 1, pos - 1) \o <<c>> \o SubSeq(sorted, pos, Len(sorted))

\* stable insertion of c into a sequence sorted by SortKey
InsertStable(sorted, c) ==
    LET later == {i \in DOMAIN sorted : SortKey(sorted[i]) > SortKey(c)}
        pos == IF later = {}
               THEN Len(sorted) + 1
               ELSE CHOOSE i \in later : \A j \in later : i <= j
    IN SubSeq(sorted, 1, pos - 1) \o <<c>> \o SubSeq(sorted, pos, Len(sorted))

\* clusters.sort_by_key(...): a stable sort
RECURSIVE SortByKey(_, _)
SortByKey(cs, sorted) ==
    IF cs = <<>> THEN sorted ELSE SortByKey(Tail(cs), InsertStable(sorted, Head(cs)))

\* cluster_voronoi(points, k, rng), with k passed as count
ClusterVoronoi(ps, count, r) ==
    LET chosen == ChooseMultiple(Len(ps), count, r)
        cents == [i \in DOMAIN chosen.val |-> At(ps, chosen.val[i])]
        empty == [i \in DOMAIN cents |-> [pts |-> <<>>, centroid |-> cents[i]]]
        assigned == AssignPoints(ps, cents, empty)
    IN [panic |-> assigned.panic,
        centroids |-> cents,
        clusters |-> SortByKey(assigned.clusters, <<>>)]

----------------------------------------------------------------------------
(* connect_clusters_internally *)

\* the weights of choose_weighted, in tenths
Weight(w) == CASE w = 1 -> 8 [] w = 2 -> 10 [] w = 3 -> 3 [] OTHER -> 0

RECURSIVE CumWeight(_)
CumWeight(w) == IF w <= 0 THEN 0 ELSE CumWeight(w - 1) + Weight(w)

\* every count from 1 to the maximum is drawn with the same weight
ChooseWeightedUniform(mnc, r) ==
    IF mnc < 1
    THEN [err |-> TRUE, val |-> 0, rng |-> r]
    ELSE LET x == RandomRange(r, mnc)
         IN [err |-> FALSE, val |-> x.val + 1, rng |-> x.rng]

\* the least neighbour count is 0: every count from 0 to the maximum less one
\* is drawn with the same weight
ChooseWeightedFromZero(mnc, r) ==
    IF mnc < 1
    THEN [err |-> TRUE, val |-> 0, rng |-> r]
    ELSE LET x == RandomRange(r, mnc)
         IN [err |-> FALSE, val |-> x.val, rng |-> x.rng]

\* (1..=max).collect().choose_weighted(rng, ..): an empty list is an error
\* (the unwrap panics); otherwise a value below the total weight is drawn and
\* the first item whose cumulative weight exceeds it is taken
ChooseWeighted(mnc, r) ==
    IF mnc < 1
    THEN [err |-> TRUE, val |-> 0, rng |-> r]
    ELSE LET x == RandomRange(r, CumWeight(mnc))
         IN [err |-> FALSE,
             val |-> CHOOSE w \in 1..mnc :
                        /\ CumWeight(w) > x.val
                        /\ \A v \in 1..(w - 1) : CumWeight(v) <= x.val,
             rng |-> x.rng]

\* one entry more than asked for
NearestNOneMore(ps, q, cnt) ==
    LET ids == 0..(Len(ps) - 1)
        before(i, j) ==
            \/ Dist2(At(ps, i), q) < Dist2(At(ps, j), q)
            \/ Dist2(At(ps, i), q) = Dist2(At(ps, j), q) /\ i < j
        rank(i) == Cardinality({j \in ids : before(j, i)})
    IN [r \in 1..Min(cnt + 1, Len(ps)) |-> CHOOSE i \in ids : rank(i) = r - 1]

\* kdtree.nearest_n(q, cnt) over entries <<ps[i], i - 1>>: the items of the
\* cnt nearest entries, nearest first, ties in insertion order
NearestN(ps, q, cnt) ==
    LET ids == 0..(Len(ps) - 1)
        before(i, j) ==
            \/ Dist2(At(ps, i), q) < Dist2(At(ps, j), q)
            \/ Dist2(At(ps, i), q) = Dist2(At(ps, j), q) /\ i < j
        rank(i) == Cardinality({j \in ids : before(j, i)})
    IN [r \in 1..Min(cnt, Len(ps)) |-> CHOOSE i \in ids : rank(i) = r - 1]

\* contains_edge of a directed graph: only the edge from a to b counts
ContainsEdgeDirected(g, a, b) == \E e \in DOMAIN g.edges : g.edges[e] = <<a, b>>

\* graph.contains_edge(a, b) of an undirected graph
ContainsEdge(g, a, b) ==
    \E e \in DOMAIN g.edges : g.edges[e] = <<a, b>> \/ g.edges[e] = <<b, a>>

\* the edge is added without the test i != j
AddNeighborToSelf(g, i, j) ==
    IF ~(\E e \in DOMAIN g.edges : g.edges[e] = <<i, j>> \/ g.edges[e] = <<j, i>>)
    THEN [g EXCEPT !.edges = Append(@, <<i, j>>)]
    ELSE g

\* if i != j and the edge is not there yet, graph.add_edge(a, b)
AddNeighbor(g, i, j) ==
    IF i # j /\ ~ContainsEdge(g, i, j)
    THEN [g EXCEPT !.edges = Append(@, <<i, j>>)]
    ELSE g

\* for j in &neighbors { ... }
RECURSIVE ConnectNeighbors(_, _, _)
ConnectNeighbors(g, i, nbrs) ==
    IF nbrs = <<>>
    THEN g
    ELSE ConnectNeighbors(AddNeighbor(g, i, Head(nbrs)), i, Tail(nbrs))

\* the graph of cluster c before its edges are added: one node per point
ClusterGraph(cs, c) ==
    IF c < Len(cs) THEN [nodes |-> At(cs, c).pts, edges |-> <<>>] ELSE NoGraph

----------------------------------------------------------------------------
(* merge_undirected_graphs *)

\* the edges are added with the local indices, not through the node map
MergeOneUntranslated(base, g) ==
    [nodes |-> base.nodes \o g.nodes, edges |-> base.edges \o g.edges]

\* the node map counts from the number of edges of base, not from the index
\* add_node returned
MergeOneEdgeOffset(base, g) ==
    LET node_map == [i \in 0..(Len(g.nodes) - 1) |-> Len(base.edges) + i]
    IN [nodes |-> base.nodes \o g.nodes,
        edges |-> base.edges \o
                  [e \in DOMAIN g.edges |->
                      <<node_map[g.edges[e][1]], node_map[g.edges[e][2]]>>]]

\* one graph g merged into base: its nodes are added in index order, the
\* node map takes local index i to the index add_node returned, the edges
\* are added through the map
MergeOne(base, g) ==
    LET node_map == [i \in 0..(Len(g.nodes) - 1) |-> Len(base.nodes) + i]
    IN [nodes |-> base.nodes \o g.nodes,
        edges |-> base.edges \o
                  [e \in DOMAIN g.edges |->
                      <<node_map[g.edges[e][1]], node_map[g.edges[e][2]]>>]]

RECURSIVE MergeUndirectedGraphs(_, _)
MergeUndirectedGraphs(base, others) ==
    IF others = <<>>
    THEN base
    ELSE MergeUndirectedGraphs(MergeOne(base, Head(others)), Tail(others))

----------------------------------------------------------------------------
(* petgraph::algo::tarjan_scc *)

Reverse(s) == [i \in DOMAIN s |-> s[Len(s) + 1 - i]]

\* the neighbours of a directed graph: only the targets of the edges leaving v
NeighborsDirected(g, v) ==
    LET outgoing == SelectSeq(g.edges, LAMBDA e : e[1] = v)
    IN Reverse([i \in DOMAIN outgoing |-> outgoing[i][2]])

\* g.neighbors(v) of an undirected graph: the targets of the edges leaving v,
\* latest edge first, then the sources of the edges entering v, latest first
Neighbors(g, v) ==
    LET outgoing == SelectSeq(g.edges, LAMBDA e : e[1] = v)
        incoming == SelectSeq(g.edges, LAMBDA e : e[2] = v /\ e[1] # v)
    IN Reverse([i \in DOMAIN outgoing |-> outgoing[i][2]])
         \o Reverse([i \in DOMAIN incoming |-> incoming[i][1]])

\* TarjanScc::new and the reset in run: no node has a root index (0 stands
\* for None), index = 1, componentcount counts down from a number above
\* every index (usize::MAX in the source)
TarjanStart(g) ==
    [root |-> [v \in 0..(Len(g.nodes) - 1) |-> 0],
     index |-> 1,
     componentcount |-> 2 * Len(g.nodes) + 2,
     stack |-> <<>>,
     sccs |-> <<>>]

\* the component is reported without its root
PopComponentNoRoot(st, v) ==
    LET below == {i \in DOMAIN st.stack : st.root[v] > st.root[st.stack[i]]}
        start == IF below = {}
                 THEN 0
                 ELSE CHOOSE i \in below : \A j \in below : j <= i
        members == SubSeq(st.stack, start + 1, Len(st.stack))
    IN [root |-> [w \in DOMAIN st.root |->
                     IF w \in Range(members) \cup {v}
                     THEN st.componentcount ELSE st.root[w]],
        index |-> st.index - (1 + Len(members)),
        componentcount |-> st.componentcount - 1,
        stack |-> SubSeq(st.stack, 1, start),
        sccs |-> Append(st.sccs, members)]

\* v is a local root: the stack entries above the last one whose root index
\* is below v's form, with v, one component
PopComponent(st, v) ==
    LET below == {i \in DOMAIN st.stack : st.root[v] > st.root[st.stack[i]]}
        start == IF below = {}
                 THEN 0
                 ELSE CHOOSE i \in below : \A j \in below : j <= i
        members == SubSeq(st.stack, start + 1, Len(st.stack))
        scc == Append(members, v)
    IN [root |-> [w \in DOMAIN st.root |->
                     IF w \in Range(scc) THEN st.componentcount ELSE st.root[w]],
        index |-> st.index - (1 + Len(members)),
        componentcount |-> st.componentcount - 1,
        stack |-> SubSeq(st.stack, 1, start),
        sccs |-> Append(st.sccs, scc)]

RECURSIVE Visit(_, _, _), VisitNeighbors(_, _, _, _, _)
\* TarjanScc::visit
Visit(g, st, v) ==
    LET entered == [st EXCEPT !.root[v] = st.index, !.index = st.index + 1]
        r == VisitNeighbors(g, entered, v, Neighbors(g, v), TRUE)
    IN IF r.local_root
       THEN PopComponent(r.st, v)
       ELSE [r.st EXCEPT !.stack = Append(@, v)]

\* for w in g.neighbors(v) { ... }
VisitNeighbors(g, st, v, nbrs, local_root) ==
    IF nbrs = <<>>
    THEN [st |-> st, local_root |-> local_root]
    ELSE LET w == Head(nbrs)
             st1 == IF st.root[w] = 0 THEN Visit(g, st, w) ELSE st
             less == st1.root[w] < st1.root[v]
             st2 == IF less THEN [st1 EXCEPT !.root[v] = st1.root[w]] ELSE st1
         IN VisitNeighbors(g, st2, v, Tail(nbrs), local_root /\ ~less)

\* TarjanScc::run: for n in g.node_identifiers() { if !visited { visit } }
RECURSIVE TarjanRun(_, _, _)
TarjanRun(g, st, v) ==
    IF v >= Len(g.nodes)
    THEN st
    ELSE TarjanRun(g, IF st.root[v] = 0 THEN Visit(g, st, v) ELSE st, v + 1)

\* tarjan_scc(&supergraph): the components in the order they are completed
TarjanScc(g) == TarjanRun(g, TarjanStart(g), 0).sccs

----------------------------------------------------------------------------
(* ConstellationGraph::new, first part: chord, offset and points *)

NumChords == 13

\* the call of new with (n, radius, max_neighbor_count, rng)
Init ==
    /\ n \in 0..MaxN
    /\ max_neighbor_count \in 0..MaxMnc
    /\ seed \in 0..MaxSeed
    /\ rng = FromSeed(seed)
    /\ pc = "start"
    /\ run = 1
    /\ first = NoResult
    /\ Fresh
    /\ NoShell
    /\ NoTicker
    /\ NoPlays
    /\ NoWalk

\* the chord is drawn from the generator of new itself, without a fork
ChooseChordFromParent ==
    /\ pc = "start"
    /\ LET c == RandomRange(rng, NumChords)
           o == RandomRange(c.rng, 23)
       IN /\ chord' = c.val
          /\ semitone_offset' = o.val - 11
          /\ rng' = o.rng
    /\ pc' = "generate_points"
    /\ UNCHANGED <<n, max_neighbor_count, seed, points, tree, max_angle, angle,
                   min_distance, iteration, relaxations, k, centroids,
                   clusters, ci, pi, graph, graphs, supergraph, islands, run, first>>
    /\ UNCHANGED shell_vars
    /\ UNCHANGED neighbor_count
    /\ UNCHANGED tick_vars
    /\ UNCHANGED play_vars
    /\ UNCHANGED walk_vars

\* chords.choose(&mut Xoshiro256Plus::from_rng(rng)); rng.random_range(-11..12)
ChooseChord ==
    /\ pc = "start"
    /\ LET f == FromRng(rng)
           c == RandomRange(f.child, NumChords)
           o == RandomRange(f.rng, 23)
       IN /\ chord' = c.val
          /\ semitone_offset' = o.val - 11
          /\ rng' = o.rng
    /\ pc' = "generate_points"
    /\ UNCHANGED <<n, max_neighbor_count, seed, points, tree, max_angle, angle,
                   min_distance, iteration, relaxations, k, centroids,
                   clusters, ci, pi, graph, graphs, supergraph, islands, run, first>>
    /\ UNCHANGED shell_vars
    /\ UNCHANGED neighbor_count
    /\ UNCHANGED tick_vars
    /\ UNCHANGED play_vars
    /\ UNCHANGED walk_vars

\* the start point is added to the tree with id 0 and pushed
StartPoints ==
    /\ pc = "generate_points"
    /\ points' = <<StartPoint>>
    /\ tree' = << <<StartPoint, 0>> >>
    /\ max_angle' = MaxAngle
    /\ pc' = "sampling"
    /\ UNCHANGED <<n, max_neighbor_count, seed, rng, chord, semitone_offset,
                   angle, min_distance, iteration, relaxations, k,
                   centroids, clusters, ci, pi, graph, graphs, supergraph, islands, run,
                   first>>
    /\ UNCHANGED shell_vars
    /\ UNCHANGED neighbor_count
    /\ UNCHANGED tick_vars
    /\ UNCHANGED play_vars
    /\ UNCHANGED walk_vars

\* the next point is started with the rejection counter of the previous one
NextPointKeepsIteration ==
    /\ pc = "sampling"
    /\ Len(points) < n
    /\ LET a == DrawAngle(rng, max_angle)
       IN /\ angle' = a.val
          /\ min_distance' = InitialMinDistance(a.val)
          /\ rng' = a.rng
    /\ pc' = "searching"
    /\ UNCHANGED <<n, max_neighbor_count, seed, chord, semitone_offset, points,
                   tree, max_angle, relaxations, k, centroids, clusters, ci, pi,
                   graph, graphs, supergraph, islands, run, first, iteration>>
    /\ UNCHANGED shell_vars
    /\ UNCHANGED neighbor_count
    /\ UNCHANGED tick_vars
    /\ UNCHANGED play_vars
    /\ UNCHANGED walk_vars

\* while points.len() < n: draw the angle of the next point
NextPoint ==
    /\ pc = "sampling"
    /\ Len(points) < n
    /\ LET a == DrawAngle(rng, max_angle)
       IN /\ angle' = a.val
          /\ min_distance' = InitialMinDistance(a.val)
          /\ rng' = a.rng
    /\ iteration' = 0
    /\ pc' = "searching"
    /\ UNCHANGED <<n, max_neighbor_count, seed, chord, semitone_offset, points,
                   tree, max_angle, relaxations, k, centroids, clusters, ci, pi,
                   graph, graphs, supergraph, islands, run, first>>
    /\ UNCHANGED shell_vars
    /\ UNCHANGED neighbor_count
    /\ UNCHANGED tick_vars
    /\ UNCHANGED play_vars
    /\ UNCHANGED walk_vars

\* the inner loop with a fatal iteration budget: a search that has used up
\* its budget ends in an error instead of taking a leniency step
TryCandidateBudgetFatal ==
    /\ pc = "searching"
    /\ LET parent_idx == RandomRange(rng, Len(points))
           parent == At(points, parent_idx.val)
           cand == Rotate(parent_idx.rng, parent, angle)
       IN IF iteration >= IterationLimit
          THEN /\ pc' = "panic"
               /\ UNCHANGED <<rng, tree, points, iteration>>
          ELSE /\ rng' = cand.rng
               /\ IF ~HasNeighborWithin(tree, cand.val, min_distance)
                  THEN /\ tree' = Append(tree, <<cand.val, Len(points)>>)
                       /\ points' = Append(points, cand.val)
                       /\ iteration' = iteration
                       /\ pc' = "sampling"
                  ELSE /\ iteration' = iteration + 1
                       /\ UNCHANGED <<tree, points, pc>>
    /\ UNCHANGED <<n, max_neighbor_count, seed, chord, semitone_offset, angle,
                   min_distance, max_angle, relaxations, k, centroids, clusters,
                   ci, pi, graph, graphs, supergraph, islands, run, first>>
    /\ UNCHANGED shell_vars
    /\ UNCHANGED neighbor_count
    /\ UNCHANGED tick_vars
    /\ UNCHANGED play_vars
    /\ UNCHANGED walk_vars

\* one pass of the inner loop: parent, leniency, candidate, query, accept or
\* count the rejection
TryCandidate ==
    /\ pc = "searching"
    /\ iteration >= IterationLimit => relaxations < MaxRelax
    /\ LET parent_idx == RandomRange(rng, Len(points))
           parent == At(points, parent_idx.val)
           relax == iteration >= IterationLimit
           it == IF relax THEN 0 ELSE iteration
           md == IF relax THEN Relaxed(min_distance) ELSE min_distance
           ma == IF relax THEN Relaxed(max_angle) ELSE max_angle
           cand == Rotate(parent_idx.rng, parent, angle)
       IN /\ rng' = cand.rng
          /\ min_distance' = md
          /\ max_angle' = ma
          /\ relaxations' = IF relax THEN relaxations + 1 ELSE relaxations
          /\ IF ~HasNeighborWithin(tree, cand.val, md)
             THEN /\ tree' = Append(tree, <<cand.val, Len(points)>>)
                  /\ points' = Append(points, cand.val)
                  /\ iteration' = it
                  /\ pc' = "sampling"
             ELSE /\ iteration' = it + 1
                  /\ UNCHANGED <<tree, points, pc>>
    /\ UNCHANGED <<n, max_neighbor_count, seed, chord, semitone_offset, angle,
                   k, centroids, clusters, ci, pi, graph, graphs, supergraph,
                   islands, run, first>>
    /\ UNCHANGED shell_vars
    /\ UNCHANGED neighbor_count
    /\ UNCHANGED tick_vars
    /\ UNCHANGED play_vars
    /\ UNCHANGED walk_vars

\* the loop ends with points.len() >= n; generate_points casts the points to
\* f32 (exact on lattice coordinates); the cluster count is ceil(n / 15)
PointsDone ==
    /\ pc = "sampling"
    /\ Len(points) >= n
    /\ k' = ClusterCount(n)
    /\ pc' = "voronoi"
    /\ UNCHANGED <<n, max_neighbor_count, seed, rng, chord, semitone_offset,
                   points, tree, max_angle, angle, min_distance, iteration,
                   relaxations, centroids, clusters, ci, pi, graph, graphs,
                   supergraph, islands, run, first>>
    /\ UNCHANGED shell_vars
    /\ UNCHANGED neighbor_count
    /\ UNCHANGED tick_vars
    /\ UNCHANGED play_vars
    /\ UNCHANGED walk_vars

----------------------------------------------------------------------------
(* ConstellationGraph::new, second part: clusters, edges, islands *)

\* voronoi_rng is forked from rng and handed to cluster_voronoi
ClusterPoints ==
    /\ pc = "voronoi"
    /\ LET f == FromRng(rng)
           r == ClusterVoronoi(points, k, f.child)
       IN /\ rng' = f.rng
          /\ centroids' = r.centroids
          /\ IF r.panic
             THEN /\ pc' = "panic"
                  /\ UNCHANGED <<clusters, graph>>
             ELSE /\ pc' = "connect"
                  /\ clusters' = r.clusters
                  /\ graph' = ClusterGraph(r.clusters, 0)
    /\ UNCHANGED <<n, max_neighbor_count, seed, chord, semitone_offset, points,
                   tree, max_angle, angle, min_distance, iteration, relaxations,
                   k, ci, pi, graphs, supergraph, islands, run, first>>
    /\ UNCHANGED shell_vars
    /\ UNCHANGED neighbor_count
    /\ UNCHANGED tick_vars
    /\ UNCHANGED play_vars
    /\ UNCHANGED walk_vars

\* one pass of the loop over the points of the current cluster: the neighbour
\* count is drawn, the nearest points are looked up and connected
ConnectPoint ==
    /\ pc = "connect"
    /\ ci < Len(clusters)
    /\ pi < Len(At(clusters, ci).pts)
    /\ LET cluster == At(clusters, ci).pts
           drawn == ChooseWeighted(max_neighbor_count, rng)
           neighbors == NearestN(cluster, At(cluster, pi), drawn.val + 1)
       IN /\ rng' = drawn.rng
          /\ IF drawn.err
             THEN /\ pc' = "panic"
                  /\ UNCHANGED <<graph, pi, neighbor_count>>
             ELSE /\ neighbor_count' = drawn.val
                  /\ graph' = ConnectNeighbors(graph, pi, neighbors)
                  /\ pi' = pi + 1
                  /\ pc' = pc
    /\ UNCHANGED <<n, max_neighbor_count, seed, chord, semitone_offset, points,
                   tree, max_angle, angle, min_distance, iteration, relaxations,
                   k, centroids, clusters, ci, graphs, supergraph, islands,
                   run, first>>
    /\ UNCHANGED shell_vars
    /\ UNCHANGED tick_vars
    /\ UNCHANGED play_vars
    /\ UNCHANGED walk_vars

\* graphs.push(graph); the next cluster starts with a graph of its points
ConnectNextCluster ==
    /\ pc = "connect"
    /\ ci < Len(clusters)
    /\ pi = Len(At(clusters, ci).pts)
    /\ graphs' = Append(graphs, graph)
    /\ ci' = ci + 1
    /\ pi' = 0
    /\ graph' = ClusterGraph(clusters, ci + 1)
    /\ UNCHANGED <<n, max_neighbor_count, seed, rng, pc, chord, semitone_offset,
                   points, tree, max_angle, angle, min_distance, iteration,
                   relaxations, k, centroids, clusters, supergraph, islands,
                   run, first>>
    /\ UNCHANGED shell_vars
    /\ UNCHANGED neighbor_count
    /\ UNCHANGED tick_vars
    /\ UNCHANGED play_vars
    /\ UNCHANGED walk_vars

\* merge_undirected_graphs(&mut supergraph, &graphs)
Merge ==
    /\ pc = "connect"
    /\ ci = Len(clusters)
    /\ supergraph' = MergeUndirectedGraphs(NoGraph, graphs)
    /\ pc' = "scc"
    /\ UNCHANGED <<n, max_neighbor_count, seed, rng, chord, semitone_offset,
                   points, tree, max_angle, angle, min_distance, iteration,
                   relaxations, k, centroids, clusters, ci, pi, graph, graphs,
                   islands, run, first>>
    /\ UNCHANGED shell_vars
    /\ UNCHANGED neighbor_count
    /\ UNCHANGED tick_vars
    /\ UNCHANGED play_vars
    /\ UNCHANGED walk_vars

\* let scc = tarjan_scc(&supergraph); the ConstellationGraph is returned
Islands ==
    /\ pc = "scc"
    /\ islands' = TarjanScc(supergraph)
    /\ pc' = "done"
    /\ UNCHANGED <<n, max_neighbor_count, seed, rng, chord, semitone_offset,
                   points, tree, max_angle, angle, min_distance, iteration,
                   relaxations, k, centroids, clusters, ci, pi, graph, graphs,
                   supergraph, run, first>>
    /\ UNCHANGED shell_vars
    /\ UNCHANGED neighbor_count
    /\ UNCHANGED tick_vars
    /\ UNCHANGED play_vars
    /\ UNCHANGED walk_vars

Next ==
    \/ ChooseChord
    \/ StartPoints
    \/ NextPoint
    \/ TryCandidate
    \/ PointsDone
    \/ ClusterPoints
    \/ ConnectPoint
    \/ ConnectNextCluster
    \/ Merge
    \/ Islands

Spec == Init /\ [][Next]_vars

----------------------------------------------------------------------------
(* The repeated call of new, for the comparison of two runs *)

\* new is called again with a generator seeded like the first one
Restart ==
    /\ pc \in {"done", "panic"}
    /\ run = 1
    /\ first' = Result
    /\ run' = 2
    /\ rng' = FromSeed(seed)
    /\ pc' = "start"
    /\ chord' = -1
    /\ semitone_offset' = 0
    /\ points' = <<>>
    /\ tree' = <<>>
    /\ max_angle' = 0
    /\ angle' = 0
    /\ min_distance' = 0
    /\ iteration' = 0
    /\ relaxations' = 0
    /\ k' = 0
    /\ centroids' = <<>>
    /\ clusters' = <<>>
    /\ ci' = 0
    /\ pi' = 0
    /\ graph' = NoGraph
    /\ graphs' = <<>>
    /\ supergraph' = NoGraph
    /\ islands' = <<>>
    /\ neighbor_count' = 0
    /\ UNCHANGED <<n, max_neighbor_count, seed>>
    /\ UNCHANGED shell_vars
    /\ UNCHANGED tick_vars
    /\ UNCHANGED play_vars
    /\ UNCHANGED walk_vars

NextTwice == Next \/ Restart

SpecTwice == Init /\ [][NextTwice]_vars

----------------------------------------------------------------------------
(* The stages after sampling, on every point list and cluster count within *)
(* the bounds: cluster_voronoi, connect_clusters_internally,               *)
(* merge_undirected_graphs and tarjan_scc as functions of their arguments  *)

\* points other than the pole that the sampler may have accepted
Pool == {<<1, 2, 2>>, <<2, 2, 1>>, <<2, 1, 2>>, <<0, -3, 0>>}

\* the pole followed by distinct points of the pool; or no point at all
PointLists ==
    {<<>>} \cup
    {<<StartPoint>> \o s : s \in
        {t \in UNION {[1..m -> Pool] : m \in 0..(MaxPts - 1)} :
            \A i, j \in DOMAIN t : i # j => t[i] # t[j]}}

InitStages ==
    /\ points \in PointLists
    /\ n = Len(points)
    /\ k \in 0..Len(points)
    /\ max_neighbor_count \in 0..MaxMnc
    /\ seed \in 0..MaxSeed
    /\ rng = FromSeed(seed)
    /\ pc = "voronoi"
    /\ run = 1
    /\ first = NoResult
    /\ chord = 0
    /\ semitone_offset = 0
    /\ tree = [i \in DOMAIN points |-> <<points[i], i - 1>>]
    /\ max_angle = MaxAngle
    /\ angle = 0
    /\ min_distance = 0
    /\ iteration = 0
    /\ relaxations = 0
    /\ centroids = <<>>
    /\ clusters = <<>>
    /\ ci = 0
    /\ pi = 0
    /\ neighbor_count = 0
    /\ graph = NoGraph
    /\ graphs = <<>>
    /\ supergraph = NoGraph
    /\ islands = <<>>
    /\ NoShell
    /\ NoTicker
    /\ NoPlays
    /\ NoWalk

NextStages ==
    \/ ClusterPoints
    \/ ConnectPoint
    \/ ConnectNextCluster
    \/ Merge
    \/ Islands

SpecStages == InitStages /\ [][NextStages]_vars

----------------------------------------------------------------------------
(* The point sampler alone, on more seeds and point counts: the part of    *)
(* new up to the return of generate_points                                 *)

MaxSamplerN == 5
MaxSamplerSeed == 11

\* max_neighbor_count is not read before the points are clustered
InitSampler ==
    /\ n \in 0..MaxSamplerN
    /\ max_neighbor_count = 1
    /\ seed \in 0..MaxSamplerSeed
    /\ rng = FromSeed(seed)
    /\ pc = "start"
    /\ run = 1
    /\ first = NoResult
    /\ Fresh
    /\ NoShell
    /\ NoTicker
    /\ NoPlays
    /\ NoWalk

NextSampler ==
    \/ ChooseChord
    \/ StartPoints
    \/ NextPoint
    \/ TryCandidate
    \/ PointsDone

SpecSampler == InitSampler /\ [][NextSampler]_vars

MaxFairN == 3
MaxFairSeed == 3

InitFair ==
    /\ n \in 0..MaxFairN
    /\ max_neighbor_count = 1
    /\ seed \in 0..MaxFairSeed
    /\ rng = FromSeed(seed)
    /\ pc = "start"
    /\ run = 1
    /\ first = NoResult
    /\ Fresh
    /\ NoShell
    /\ NoTicker
    /\ NoPlays
    /\ NoWalk

\* the thread that runs the sampler keeps running: a step that can be taken
\* is taken
FairSampler == InitFair /\ [][NextSampler]_vars /\ WF_vars(NextSampler)

----------------------------------------------------------------------------
(* The end of sampling and cluster_voronoi on point lists long enough for  *)
(* more than one cluster                                                   *)

MaxClusterN == 17

\* the lattice points of the sphere, the pole first
PoleFirst ==
    <<StartPoint>> \o SelectSeq(SphereSeq, LAMBDA p : p # StartPoint)

\* the sampler has accepted n distinct points
InitCluster ==
    /\ n \in 1..MaxClusterN
    /\ points = SubSeq(PoleFirst, 1, n)
    /\ max_neighbor_count = 3
    /\ seed \in 0..MaxSeed
    /\ rng = FromSeed(seed)
    /\ pc = "sampling"
    /\ run = 1
    /\ first = NoResult
    /\ chord = 0
    /\ semitone_offset = 0
    /\ tree = [i \in DOMAIN points |-> <<points[i], i - 1>>]
    /\ max_angle = MaxAngle
    /\ angle = 0
    /\ min_distance = 0
    /\ iteration = 0
    /\ relaxations = 0
    /\ k = 0
    /\ centroids = <<>>
    /\ clusters = <<>>
    /\ ci = 0
    /\ pi = 0
    /\ neighbor_count = 0
    /\ graph = NoGraph
    /\ graphs = <<>>
    /\ supergraph = NoGraph
    /\ islands = <<>>
    /\ NoShell
    /\ NoTicker
    /\ NoPlays
    /\ NoWalk

NextCluster == PointsDone \/ ClusterPoints

SpecCluster == InitCluster /\ [][NextCluster]_vars

----------------------------------------------------------------------------
(* AudioGraph::ready and spawn_rayon_with_result: new runs as a rayon job  *)
(* on a worker thread, the task of the main thread awaits its result       *)

MaxShellN == 3
MaxShellSeed == 2
MaxPolls == 2

\* the parameters of new and the bookkeeping of the repeated call
call_vars == <<n, max_neighbor_count, seed, run, first>>

\* the locals of new other than its generator and its position
new_vars == <<chord, semitone_offset, points, tree, max_angle, angle,
              min_distance, iteration, relaxations, k, centroids, clusters,
              ci, pi, neighbor_count, graph, graphs, supergraph, islands>>

\* create_rng_from_seed_and_state(0xA0A0BE63, global_seed): the hash of the
\* two seeds seeds the root generator
CreateRngFromSeedAndState(s) == FromSeed(s)

\* ready: num_points and the global seed are read, the root generator is
\* created; max_neighbor_count is 3
InitShell ==
    /\ n \in 0..MaxShellN
    /\ max_neighbor_count = 3
    /\ seed \in 0..MaxShellSeed
    /\ root_rng = CreateRngFromSeedAndState(seed)
    /\ rng = 0
    /\ pc = "idle"
    /\ run = 1
    /\ first = NoResult
    /\ Fresh
    /\ shell = "ready"
    /\ worker = "none"
    /\ channel = NoChannel
    /\ received = Pending
    /\ island_rng = 0
    /\ polls = 0
    /\ NoTicker
    /\ NoPlays
    /\ NoWalk

\* point_rng is forked from root_rng and moved into the closure;
\* spawn_rayon_with_result creates the channel, hands the job (with tx) to
\* rayon and returns the future (with rx), which the task awaits
SpawnWorker ==
    /\ shell = "ready"
    /\ LET f == FromRng(root_rng)
       IN /\ root_rng' = f.rng
          /\ rng' = f.child
    /\ channel' = [msgs |-> <<>>, tx |-> TRUE, rx |-> TRUE]
    /\ worker' = "queued"
    /\ shell' = "awaiting"
    /\ UNCHANGED <<call_vars, new_vars, pc, received, island_rng, polls>>
    /\ UNCHANGED tick_vars
    /\ UNCHANGED play_vars
    /\ UNCHANGED walk_vars

\* a thread of the pool takes the job: func() calls new
WorkerStart ==
    /\ worker = "queued"
    /\ worker' = "running"
    /\ pc' = "start"
    /\ UNCHANGED <<call_vars, new_vars, rng, root_rng, shell, channel, received,
                   island_rng, polls>>
    /\ UNCHANGED tick_vars
    /\ UNCHANGED play_vars
    /\ UNCHANGED walk_vars

\* func() has returned: tx.send(result) succeeds while the receiver lives and
\* fails (logged with a warning) once it is dropped; the job ends, tx is dropped
WorkerSend ==
    /\ worker = "running"
    /\ pc = "done"
    /\ IF channel.rx
       THEN /\ channel' = [msgs |-> Append(channel.msgs, Result), tx |-> FALSE,
                           rx |-> TRUE]
            /\ worker' = "sent"
       ELSE /\ channel' = [channel EXCEPT !.tx = FALSE]
            /\ worker' = "warned"
    /\ UNCHANGED <<call_vars, new_vars, rng, pc, root_rng, shell, received,
                   island_rng, polls>>
    /\ UNCHANGED tick_vars
    /\ UNCHANGED play_vars
    /\ UNCHANGED walk_vars

\* func() has panicked: the unwinding drops the closure and with it tx
WorkerUnwind ==
    /\ worker = "running"
    /\ pc = "panic"
    /\ channel' = [channel EXCEPT !.tx = FALSE]
    /\ worker' = "unwound"
    /\ UNCHANGED <<call_vars, new_vars, rng, pc, root_rng, shell, received,
                   island_rng, polls>>
    /\ UNCHANGED tick_vars
    /\ UNCHANGED play_vars
    /\ UNCHANGED walk_vars

\* rayon::spawn has caught the panic; no panic handler is registered with the
\* pool, so rayon aborts the process
WorkerAbort ==
    /\ worker = "unwound"
    /\ worker' = "aborted"
    /\ UNCHANGED <<call_vars, new_vars, rng, pc, root_rng, shell, channel,
                   received, island_rng, polls>>
    /\ UNCHANGED tick_vars
    /\ UNCHANGED play_vars
    /\ UNCHANGED walk_vars

\* the executor polls rx.recv_async(): a message resolves the future to Ok;
\* an empty channel without a sender resolves it to Err(RecvError), on which
\* expect panics; otherwise the future stays pending
ShellPoll ==
    /\ shell = "awaiting"
    /\ worker # "aborted"
    /\ IF channel.msgs # <<>>
       THEN /\ received' = [state |-> "ok", value |-> Head(channel.msgs)]
            /\ channel' = [msgs |-> Tail(channel.msgs), tx |-> channel.tx,
                           rx |-> FALSE]
            /\ shell' = "resolved"
            /\ polls' = polls
       ELSE IF ~channel.tx
            THEN /\ received' = [state |-> "err"]
                 /\ channel' = [channel EXCEPT !.rx = FALSE]
                 /\ shell' = "expect_failed"
                 /\ polls' = polls
            ELSE /\ polls < MaxPolls
                 /\ polls' = polls + 1
                 /\ UNCHANGED <<received, channel, shell>>
    /\ UNCHANGED <<call_vars, new_vars, rng, pc, root_rng, worker, island_rng>>
    /\ UNCHANGED tick_vars
    /\ UNCHANGED play_vars
    /\ UNCHANGED walk_vars

\* the task is dropped while it awaits (its executor is dropped with the node
\* or by stop_all_tasks): the future and with it rx are dropped
ShellDiscard ==
    /\ shell = "awaiting"
    /\ worker # "aborted"
    /\ shell' = "discarded"
    /\ channel' = [msgs |-> <<>>, tx |-> channel.tx, rx |-> FALSE]
    /\ UNCHANGED <<call_vars, new_vars, rng, pc, root_rng, worker, received,
                   island_rng, polls>>
    /\ UNCHANGED tick_vars
    /\ UNCHANGED play_vars
    /\ UNCHANGED walk_vars

\* the island generator is forked from the generator of the worker, as if the
\* worker had been handed the root generator itself
GenerateIslandDataSharedRng ==
    /\ shell = "resolved"
    /\ worker # "aborted"
    /\ LET f == FromRng(rng)
       IN /\ island_rng' = f.child
          /\ root_rng' = f.rng
    /\ shell' = "island_data"
    /\ UNCHANGED <<call_vars, new_vars, rng, pc, worker, channel, received, polls>>
    /\ UNCHANGED tick_vars
    /\ UNCHANGED play_vars
    /\ UNCHANGED walk_vars

\* generate_island_data(&constellation, &mut root_rng): island_rng is forked
\* from the root generator
GenerateIslandData ==
    /\ shell = "resolved"
    /\ worker # "aborted"
    /\ LET f == FromRng(root_rng)
       IN /\ island_rng' = f.child
          /\ root_rng' = f.rng
    /\ shell' = "island_data"
    /\ UNCHANGED <<call_vars, new_vars, rng, pc, worker, channel, received, polls>>
    /\ UNCHANGED tick_vars
    /\ UNCHANGED play_vars
    /\ UNCHANGED walk_vars

NextShell ==
    \/ SpawnWorker
    \/ WorkerStart
    \/ ChooseChord
    \/ StartPoints
    \/ NextPoint
    \/ TryCandidate
    \/ PointsDone
    \/ ClusterPoints
    \/ ConnectPoint
    \/ ConnectNextCluster
    \/ Merge
    \/ Islands
    \/ WorkerSend
    \/ WorkerUnwind
    \/ WorkerAbort
    \/ ShellPoll
    \/ ShellDiscard
    \/ GenerateIslandData

SpecShell == InitShell /\ [][NextShell]_vars

----------------------------------------------------------------------------
(* state_tick.rs: the ticker thread beat_emitter, BPM_CHANNEL, TICK_CHANNEL *)

MaxTicks == 33
MaxBpmSends == 3
MaxReceivers == 1

\* the bounds of the tapped bpm: clamp(30.0, 300.0)
MinBpm == 30
MaxBpm == 300

\* the values of bpm sent: the default and the two ends of the tapped range
BpmValues == {MinBpm, DefaultBpm, MaxBpm}

TicksPerBeat == 4
BeatsPerBar == 4

\* Duration::from_secs_f64(60.0 / bpm / ticks_per_beat), in milliseconds
Interval(b) == 60000 \div (b * TicksPerBeat)

\* the Tick built from the counters
TickOf(t, b, br, total) ==
    [sent |-> TRUE, tick |-> t, beat |-> b, bar |-> br, total_ticks |-> total,
     ticks_per_beat |-> TicksPerBeat, beats_per_bar |-> BeatsPerBar]

\* the state of everything but the ticker
rest_vars == <<n, max_neighbor_count, seed, rng, pc, chord, semitone_offset,
               points, tree, max_angle, angle, min_distance, iteration,
               relaxations, k, centroids, clusters, ci, pi, neighbor_count,
               graph, graphs, supergraph, islands, run, first, shell_vars>>

InitTick ==
    /\ n = 1
    /\ max_neighbor_count = 3
    /\ seed = 0
    /\ rng = 0
    /\ pc = "idle"
    /\ run = 1
    /\ first = NoResult
    /\ Fresh
    /\ NoShell
    /\ NoTicker
    /\ NoPlays
    /\ NoWalk

\* AudioState::ready: set_bpm(self.bpm) sends the initial bpm
AudioStateReady ==
    /\ bpm_sends = 0
    /\ bpm_channel' = Append(bpm_channel, bpm)
    /\ bpm_sends' = 1
    /\ UNCHANGED <<bpm, ticker, interval, tick, beat, bar, total_ticks,
                   receivers, tick_channel, last_sent, rest_vars>>
    /\ UNCHANGED drained
    /\ UNCHANGED play_vars
    /\ UNCHANGED walk_vars

\* set_bpm(new_bpm): set_bpm_internal sends the value, the field is set
SetBpm ==
    /\ bpm_sends >= 1
    /\ bpm_sends < MaxBpmSends
    /\ \E b \in BpmValues :
          /\ bpm_channel' = Append(bpm_channel, b)
          /\ bpm' = b
    /\ bpm_sends' = bpm_sends + 1
    /\ UNCHANGED <<ticker, interval, tick, beat, bar, total_ticks, receivers,
                   tick_channel, last_sent, rest_vars>>
    /\ UNCHANGED drained
    /\ UNCHANGED play_vars
    /\ UNCHANGED walk_vars

\* the first use of TICK_CHANNEL creates the channel and spawns beat_emitter;
\* the receiver created with the channel is dropped
InitTickChannel ==
    /\ ticker = "unspawned"
    /\ ticker' = "waiting_for_initial_bpm"
    /\ UNCHANGED <<bpm, bpm_channel, bpm_sends, interval, tick, beat, bar,
                   total_ticks, receivers, tick_channel, last_sent, rest_vars>>
    /\ UNCHANGED drained
    /\ UNCHANGED play_vars
    /\ UNCHANGED walk_vars

\* subscribe_to_ticks: sender.subscribe()
SubscribeToTicks ==
    /\ ticker # "unspawned"
    /\ receivers < MaxReceivers
    /\ receivers' = receivers + 1
    /\ UNCHANGED <<bpm, bpm_channel, bpm_sends, ticker, interval, tick, beat,
                   bar, total_ticks, tick_channel, last_sent, rest_vars>>
    /\ UNCHANGED drained
    /\ UNCHANGED play_vars
    /\ UNCHANGED walk_vars

\* a TickReceiver is dropped
DropTickReceiver ==
    /\ receivers > 0
    /\ receivers' = receivers - 1
    /\ UNCHANGED <<bpm, bpm_channel, bpm_sends, ticker, interval, tick, beat,
                   bar, total_ticks, tick_channel, last_sent, rest_vars>>
    /\ UNCHANGED drained
    /\ UNCHANGED play_vars
    /\ UNCHANGED walk_vars

\* beat_emitter: bpm_rx.recv() returns the first value sent; the interval and
\* the counters are set up
ReceiveInitialBpm ==
    /\ ticker = "waiting_for_initial_bpm"
    /\ bpm_channel # <<>>
    /\ interval' = Interval(Head(bpm_channel))
    /\ bpm_channel' = Tail(bpm_channel)
    /\ total_ticks' = 0
    /\ tick' = 0
    /\ beat' = 0
    /\ bar' = 0
    /\ ticker' = "loop"
    /\ UNCHANGED <<bpm, bpm_sends, receivers, tick_channel, last_sent, rest_vars>>
    /\ UNCHANGED drained
    /\ UNCHANGED play_vars
    /\ UNCHANGED walk_vars

\* the pending values are drained and the first of them is taken
DrainBpmFirst ==
    /\ ticker = "loop"
    /\ interval' = IF bpm_channel # <<>> THEN Interval(Head(bpm_channel))
                                         ELSE interval
    /\ bpm_channel' = <<>>
    /\ drained' = Len(bpm_channel)
    /\ ticker' = "sleeping"
    /\ UNCHANGED <<bpm, bpm_sends, tick, beat, bar, total_ticks, receivers,
                   tick_channel, last_sent, rest_vars>>
    /\ UNCHANGED play_vars
    /\ UNCHANGED walk_vars

\* top of the loop: bpm_rx.try_iter().last() empties the channel; the last
\* value, if there is one, sets the interval
DrainBpm ==
    /\ ticker = "loop"
    /\ interval' = IF bpm_channel # <<>>
                   THEN Interval(bpm_channel[Len(bpm_channel)])
                   ELSE interval
    /\ bpm_channel' = <<>>
    /\ drained' = Len(bpm_channel)
    /\ ticker' = "sleeping"
    /\ UNCHANGED <<bpm, bpm_sends, tick, beat, bar, total_ticks, receivers,
                   tick_channel, last_sent, rest_vars>>
    /\ UNCHANGED play_vars
    /\ UNCHANGED walk_vars

\* the beat wraps into the bar one beat late: beat > beats_per_bar
EmitTickLateWrap ==
    /\ ticker = "sleeping"
    /\ total_ticks < MaxTicks
    /\ LET t == TickOf(tick, beat, bar, total_ticks)
       IN /\ last_sent' = t
          /\ tick_channel' = IF receivers > 0 THEN t ELSE tick_channel
    /\ total_ticks' = total_ticks + 1
    /\ IF tick + 1 >= TicksPerBeat
       THEN /\ tick' = 0
            /\ IF beat + 1 > BeatsPerBar
               THEN beat' = 0 /\ bar' = bar + 1
               ELSE beat' = beat + 1 /\ bar' = bar
       ELSE /\ tick' = tick + 1
            /\ UNCHANGED <<beat, bar>>
    /\ ticker' = "loop"
    /\ UNCHANGED <<bpm, bpm_channel, bpm_sends, interval, receivers, rest_vars>>
    /\ UNCHANGED drained
    /\ UNCHANGED play_vars
    /\ UNCHANGED walk_vars

\* the rest of the loop: the thread sleeps until the deadline, sends the Tick
\* of the counters (the send fails without a receiver) and advances the
\* counters
EmitTick ==
    /\ ticker = "sleeping"
    /\ total_ticks < MaxTicks
    /\ LET t == TickOf(tick, beat, bar, total_ticks)
       IN /\ last_sent' = t
          /\ tick_channel' = IF receivers > 0 THEN t ELSE tick_channel
    /\ total_ticks' = total_ticks + 1
    /\ IF tick + 1 >= TicksPerBeat
       THEN /\ tick' = 0
            /\ IF beat + 1 >= BeatsPerBar
               THEN beat' = 0 /\ bar' = bar + 1
               ELSE beat' = beat + 1 /\ bar' = bar
       ELSE /\ tick' = tick + 1
            /\ UNCHANGED <<beat, bar>>
    /\ ticker' = "loop"
    /\ UNCHANGED <<bpm, bpm_channel, bpm_sends, interval, receivers, rest_vars>>
    /\ UNCHANGED drained
    /\ UNCHANGED play_vars
    /\ UNCHANGED walk_vars

NextTick ==
    \/ AudioStateReady
    \/ SetBpm
    \/ InitTickChannel
    \/ SubscribeToTicks
    \/ DropTickReceiver
    \/ ReceiveInitialBpm
    \/ DrainBpm
    \/ EmitTick

SpecTick == InitTick /\ [][NextTick]_vars

----------------------------------------------------------------------------
(* node_main.rs: AudioNode::play on one node; the play tasks run on the    *)
(* executor of AudioGraph, which process ticks until no task is ready; a   *)
(* frame is input, then process, then the tweens                           *)

\* the state of everything but the node and its play tasks
still_vars == <<rest_vars, tick_vars, walk_vars>>

InitPlay ==
    /\ n = 1
    /\ max_neighbor_count = 3
    /\ seed = 0
    /\ rng = 0
    /\ pc = "idle"
    /\ run = 1
    /\ first = NoResult
    /\ Fresh
    /\ NoShell
    /\ NoTicker
    /\ NoPlays
    /\ NoWalk

\* tween.kill()
Kill(tw, t) == [tw EXCEPT ![t] = "killed"]

\* the tasks of q followed by those of ps (in the order of ps) that are not
\* in it yet: wakers push a task to the end of the queue once
RECURSIVE Woken(_, _)
Woken(q, ps) ==
    IF ps = <<>>
    THEN q
    ELSE Woken(IF \E i \in DOMAIN q : q[i] = Head(ps) THEN q ELSE Append(q, Head(ps)),
               Tail(ps))

\* the numbers of the play tasks that satisfy Test, in ascending order
PlaysWhere(Test(_)) ==
    SelectSeq([i \in 1..MaxPlays |-> i], Test)

\* spawn_local_task(.., play(node, .., token)): the next play task is pushed
\* to the queue with a clone of the token tk
SpawnPlayWith(tk) ==
    /\ \E p \in 1..MaxPlays :
          /\ plays[p].state = "unspawned"
          /\ \A q \in 1..(p - 1) : plays[q].state # "unspawned"
          /\ plays' = [plays EXCEPT ![p] = [state |-> "spawned", token |-> tk,
                                            signalled |-> FALSE]]
          /\ run_queue' = Append(run_queue, p)
    /\ UNCHANGED <<active, amplitude_tween, tweens, panic_button_cancel,
                   cancelled, assert_failed, frame, still_vars>>

\* unhandled_input, "stress": a play is spawned with the current token
StressPlay ==
    /\ frame = "input"
    /\ SpawnPlayWith(panic_button_cancel)

\* walk_node, run by the executor: a play is spawned with the token of the
\* walk, the current one or one cancelled since the walk began
WalkerPlay ==
    /\ frame = "process"
    /\ \E tk \in 1..panic_button_cancel : SpawnPlayWith(tk)

\* unhandled_input, "panic": the token is cancelled, which wakes the tasks
\* that wait on it, and replaced by a new one
PanicButton ==
    /\ frame = "input"
    /\ panic_button_cancel <= MaxPanics
    /\ cancelled' = cancelled \cup {panic_button_cancel}
    /\ panic_button_cancel' = panic_button_cancel + 1
    /\ run_queue' =
          Woken(run_queue,
                PlaysWhere(LAMBDA p : /\ plays[p].state = "awaiting"
                                      /\ plays[p].token = panic_button_cancel))
    /\ UNCHANGED <<active, amplitude_tween, tweens, plays, assert_failed, frame,
                   still_vars>>

\* process: tick_deferred starts the loop over exec.try_tick()
BeginProcess ==
    /\ frame = "input"
    /\ frame' = "process"
    /\ UNCHANGED <<active, amplitude_tween, tweens, plays, run_queue,
                   panic_button_cancel, cancelled, assert_failed, still_vars>>

\* play, from its start to the select: the previous tween is taken and
\* killed, the node is set playing, the new tween is created and stored
\* (asserting that none was stored); with the token already cancelled the
\* select returns at once and the play ends as in PlayResumes
PlayStarts(p) ==
    LET prev == amplitude_tween
        after_take == 0
        tw == IF prev # 0 THEN Kill(tweens, prev) ELSE tweens
        old_tween == after_take
    IN /\ plays[p].state = "spawned"
       /\ assert_failed' = (assert_failed \/ old_tween # 0)
       /\ IF plays[p].token \in cancelled
          THEN /\ tweens' = [tw EXCEPT ![p] = "killed"]
               /\ active' = FALSE
               /\ amplitude_tween' = 0
               /\ plays' = [plays EXCEPT ![p].state = "done"]
          ELSE /\ tweens' = [tw EXCEPT ![p] = "running"]
               /\ active' = TRUE
               /\ amplitude_tween' = p
               /\ plays' = [plays EXCEPT ![p].state = "awaiting"]

\* play, after the select: with the finished signal the node is stopped and
\* the stored tween forgotten; with the token cancelled the node is stopped
\* and the stored tween killed and forgotten; select takes either branch when
\* both are ready
PlayResumes(p) ==
    /\ plays[p].state = "awaiting"
    /\ \/ /\ plays[p].signalled
          /\ UNCHANGED tweens
       \/ /\ plays[p].token \in cancelled
          /\ tweens' = IF amplitude_tween # 0 THEN Kill(tweens, amplitude_tween)
                                             ELSE tweens
    /\ active' = FALSE
    /\ amplitude_tween' = 0
    /\ plays' = [plays EXCEPT ![p].state = "done"]
    /\ UNCHANGED assert_failed

\* the task woken or spawned last is run first
RunTaskLast ==
    /\ frame = "process"
    /\ run_queue # <<>>
    /\ LET p == run_queue[Len(run_queue)]
       IN PlayStarts(p) \/ PlayResumes(p)
    /\ run_queue' = SubSeq(run_queue, 1, Len(run_queue) - 1)
    /\ UNCHANGED <<panic_button_cancel, cancelled, frame, still_vars>>

\* exec.try_tick(): the task at the head of the queue is run up to its next
\* await
RunTask ==
    /\ frame = "process"
    /\ run_queue # <<>>
    /\ LET p == Head(run_queue)
       IN PlayStarts(p) \/ PlayResumes(p)
    /\ run_queue' = Tail(run_queue)
    /\ UNCHANGED <<panic_button_cancel, cancelled, frame, still_vars>>

\* try_tick finds no task: the loop ends; the tweens are processed next
EndProcess ==
    /\ frame = "process"
    /\ run_queue = <<>>
    /\ frame' = "tweens"
    /\ UNCHANGED <<active, amplitude_tween, tweens, plays, run_queue,
                   panic_button_cancel, cancelled, assert_failed, still_vars>>

\* a running tween reaches its end: finished is emitted, which wakes the play
\* that awaits it
TweenFinished ==
    /\ frame = "tweens"
    /\ \E t \in 1..MaxPlays :
          /\ tweens[t] = "running"
          /\ tweens' = [tweens EXCEPT ![t] = "finished"]
          /\ plays' = [plays EXCEPT ![t].signalled = TRUE]
          /\ run_queue' = Woken(run_queue, <<t>>)
    /\ UNCHANGED <<active, amplitude_tween, panic_button_cancel, cancelled,
                   assert_failed, frame, still_vars>>

\* the frame ends
EndFrame ==
    /\ frame = "tweens"
    /\ frame' = "input"
    /\ UNCHANGED <<active, amplitude_tween, tweens, plays, run_queue,
                   panic_button_cancel, cancelled, assert_failed, still_vars>>

NextPlay ==
    \/ StressPlay
    \/ WalkerPlay
    \/ PanicButton
    \/ BeginProcess
    \/ RunTask
    \/ EndProcess
    \/ TweenFinished
    \/ EndFrame

SpecPlay == InitPlay /\ [][NextPlay]_vars

----------------------------------------------------------------------------
(* Notions used to state the properties *)

Nodes(g) == 0..(Len(g.nodes) - 1)

\* the edges incident to node v
IncidentEdges(g, v) ==
    {e \in DOMAIN g.edges : g.edges[e][1] = v \/ g.edges[e][2] = v}

Degree(g, v) == Cardinality(IncidentEdges(g, v))

\* the edges added while v was processed: add_edge(a, b) has a = v
InitiatedEdges(g, v) == {e \in DOMAIN g.edges : g.edges[e][1] = v}

Adjacent(g, a, b) ==
    \E e \in DOMAIN g.edges : g.edges[e] = <<a, b>> \/ g.edges[e] = <<b, a>>

\* the nodes reachable from the set s along edges, in either direction
RECURSIVE Reach(_, _)
Reach(g, s) ==
    LET t == s \cup {b \in Nodes(g) : \E a \in s : Adjacent(g, a, b)}
    IN IF t = s THEN s ELSE Reach(g, t)

NoSelfLoop(g) == \A e \in DOMAIN g.edges : g.edges[e][1] # g.edges[e][2]

NoDuplicateEdge(g) ==
    \A e, f \in DOMAIN g.edges :
        e # f => {g.edges[e][1], g.edges[e][2]} # {g.edges[f][1], g.edges[f][2]}

\* the graph under construction, the finished cluster graphs, the merged graph
AllGraphs == {graph, supergraph} \cup Range(graphs)

\* positions <<i, j>> at which node v occurs in the island list
IslandPositions(v) ==
    {ij \in {<<i, j>> : i \in DOMAIN islands, j \in 1..Len(supergraph.nodes)} :
        ij[2] <= Len(islands[ij[1]]) /\ islands[ij[1]][ij[2]] = v}

SameIsland(a, b) ==
    \E i \in DOMAIN islands : a \in Range(islands[i]) /\ b \in Range(islands[i])

\* number of occurrences of p in the sequence s
Occurrences(s, p) == Cardinality({i \in DOMAIN s : s[i] = p})

RECURSIVE OccurrencesInClusters(_, _)
OccurrencesInClusters(cs, p) ==
    IF cs = <<>>
    THEN 0
    ELSE Occurrences(Head(cs).pts, p) + OccurrencesInClusters(Tail(cs), p)

\* the first position of p in the sequence s (0 when absent)
PositionIn(s, p) ==
    IF \E i \in DOMAIN s : s[i] = p
    THEN CHOOSE i \in DOMAIN s : s[i] = p /\ \A j \in 1..(i - 1) : s[j] # p
    ELSE 0

\* cluster_voronoi has returned
Clustered == pc \in {"connect", "scc", "done"}

----------------------------------------------------------------------------
(* Properties *)

C2_PointAndNodeCount ==
    /\ pc = "voronoi" => Len(points) = n
    /\ pc = "done" => Len(supergraph.nodes) = n

\* C3: the islands partition the node set: every node index occurs exactly
\* once in the island list, only node indices occur, and no island is empty.
C3_IslandsPartition ==
    pc = "done" =>
        /\ \A v \in Nodes(supergraph) : Cardinality(IslandPositions(v)) = 1
        /\ \A i \in DOMAIN islands :
              /\ islands[i] # <<>>
              /\ Range(islands[i]) \subseteq Nodes(supergraph)

C3_Witness ==
    /\ pc = "done"
    /\ Len(clusters) >= 2
    /\ Len(islands) >= 2
    /\ \E i \in DOMAIN islands : Len(islands[i]) >= 2

\* C4: two nodes are in the same island exactly when a path of edges joins
\* them.
C4_IslandsAreComponents ==
    pc = "done" =>
        \A a, b \in Nodes(supergraph) :
            SameIsland(a, b) <=> b \in Reach(supergraph, {a})

C4_Witness ==
    /\ pc = "done"
    /\ Len(islands) >= 2
    /\ \E a, b \in Nodes(supergraph) :
          /\ a # b
          /\ SameIsland(a, b)
          /\ ~Adjacent(supergraph, a, b)

\* C5: no per-cluster graph and no merged graph has a self-loop or two edges
\* between the same unordered pair of nodes.
C5_Simple == \A g \in AllGraphs : NoSelfLoop(g) /\ NoDuplicateEdge(g)

\* a merged graph of several clusters in which a point found the edge to its
\* nearest neighbour already there (fewer edges than neighbour choices)
C5_Witness ==
    /\ pc = "done"
    /\ Len(clusters) >= 2
    /\ Len(supergraph.edges) >= 2
    /\ \E c \in DOMAIN clusters : Len(clusters[c].pts) >= 2
    /\ Len(supergraph.edges) < Len(supergraph.nodes)

C7_ZeroPoints ==
    n = 0 =>
        /\ pc # "panic"
        /\ pc = "done" => supergraph = NoGraph /\ islands = <<>>

\* C8: with n = 1 and max_neighbor_count >= 1 new does not crash, seeks no
\* candidate, and returns one node, no edge and one island of size 1.
C8_OnePoint ==
    (n = 1 /\ max_neighbor_count >= 1) =>
        /\ pc \notin {"panic", "searching"}
        /\ iteration = 0
        /\ Len(points) <= 1
        /\ pc = "done" =>
              /\ supergraph = [nodes |-> <<StartPoint>>, edges |-> <<>>]
              /\ islands = << <<0>> >>

C8_Witness == n = 1 /\ max_neighbor_count >= 1 /\ pc = "done"

\* C9: every input point is in exactly one cluster (the clusters' point lists
\* together hold each point as often as the input does), and its cluster's
\* centroid is at the least distance from it among the chosen centroids.
C9_VoronoiPartition ==
    Clustered =>
        /\ Len(clusters) = Len(centroids)
        /\ \A p \in Range(points) \cup Pool :
              OccurrencesInClusters(clusters, p) = Occurrences(points, p)
        /\ \A c \in DOMAIN clusters :
              \A i \in DOMAIN clusters[c].pts :
                 \A q \in Range(centroids) :
                    Dist2(clusters[c].pts[i], clusters[c].centroid)
                        <= Dist2(clusters[c].pts[i], q)

C9_Witness ==
    /\ Clustered
    /\ Len(clusters) >= 2
    /\ \E c \in DOMAIN clusters : Len(clusters[c].pts) >= 2

\* C10: the clusters are in descending order of centroid height; clusters of
\* equal centroid height are in the order their centroids were chosen; each
\* cluster holds its own centroid; the points of a cluster are in sampling
\* order.
C10_ClusterOrder ==
    Clustered =>
        /\ \A i, j \in DOMAIN clusters :
              i < j =>
                 /\ clusters[i].centroid[2] >= clusters[j].centroid[2]
                 /\ clusters[i].centroid[2] = clusters[j].centroid[2] =>
                       PositionIn(centroids, clusters[i].centroid)
                           < PositionIn(centroids, clusters[j].centroid)
        /\ \A c \in DOMAIN clusters :
              /\ clusters[c].centroid \in Range(clusters[c].pts)
              /\ PositionIn(centroids, clusters[c].centroid) > 0
              /\ \A i, j \in DOMAIN clusters[c].pts :
                    i < j => PositionIn(points, clusters[c].pts[i])
                                < PositionIn(points, clusters[c].pts[j])

\* three clusters, two of equal centroid height whose centroids were chosen
\* after that of a lower cluster
C10_Witness ==
    /\ Clustered
    /\ Len(clusters) >= 3
    /\ \E i, j \in DOMAIN clusters :
          /\ i < j
          /\ clusters[i].centroid[2] = clusters[j].centroid[2]
          /\ \E l \in DOMAIN clusters :
                /\ clusters[l].centroid[2] < clusters[i].centroid[2]
                /\ PositionIn(centroids, clusters[l].centroid)
                      < PositionIn(centroids, clusters[i].centroid)

\* the number of nodes (edges) of the graphs before the c-th one
RECURSIVE NodesBefore(_, _)
NodesBefore(gs, c) ==
    IF c <= 1 THEN 0 ELSE NodesBefore(gs, c - 1) + Len(gs[c - 1].nodes)

RECURSIVE EdgesBefore(_, _)
EdgesBefore(gs, c) ==
    IF c <= 1 THEN 0 ELSE EdgesBefore(gs, c - 1) + Len(gs[c - 1].edges)

\* merge_undirected_graphs has returned
Merged == pc \in {"scc", "done"}

\* C11: the merged graph is a relabelling of the cluster graphs: the j-th node
\* of cluster c gets the index (sizes of the clusters before c) + j and keeps
\* its position; the edge list is the cluster graphs' edge lists translated
\* through that map, in cluster order then edge order; the edge count is the
\* sum of the clusters' edge counts and every node keeps its degree.
C11_MergeRelabels ==
    Merged =>
        /\ Len(graphs) = Len(clusters)
        /\ Len(supergraph.nodes) = NodesBefore(graphs, Len(graphs) + 1)
        /\ Len(supergraph.edges) = EdgesBefore(graphs, Len(graphs) + 1)
        /\ \A c \in DOMAIN graphs :
              LET off == NodesBefore(graphs, c)
                  eoff == EdgesBefore(graphs, c)
              IN /\ graphs[c].nodes = clusters[c].pts
                 /\ \A j \in Nodes(graphs[c]) :
                       /\ At(supergraph.nodes, off + j) = At(graphs[c].nodes, j)
                       /\ Degree(supergraph, off + j) = Degree(graphs[c], j)
                 /\ \A e \in DOMAIN graphs[c].edges :
                       supergraph.edges[eoff + e] =
                           <<off + graphs[c].edges[e][1], off + graphs[c].edges[e][2]>>

\* a merged graph in which a cluster after a non-empty first one has edges
C11_Witness ==
    /\ Merged
    /\ Len(graphs) >= 2
    /\ graphs[1].nodes # <<>>
    /\ \E c \in DOMAIN graphs : c >= 2 /\ Len(graphs[c].edges) >= 1
    /\ Len(supergraph.edges) >= 2

\* the points at positions i < j are at chord distance at least l (1/1000 units)
Separated(l) ==
    \A i, j \in DOMAIN points :
        i < j => Dist2(points[i], points[j]) * 1000000 >= l * l

\* C12 as claimed: as long as no leniency step has been taken, any two accepted
\* points are at chord distance at least 0.9 * 2 * radius * sin(target_angle / 2)
\* for the initial target angle.
C12_SeparationByTargetAngle ==
    relaxations = 0 => Separated((ChordLen(MaxAngle) * 9) \div 10)

\* C12 as amended: as long as no leniency step has been taken, the minimum
\* distance in force is 0.9 * 2 * radius * sin(angle / 2) for the angle drawn
\* for the current point, which lies between 0.5 and 1.5 times the target
\* angle; any two accepted points are at chord distance at least
\* 0.9 * 2 * radius * sin(target_angle / 4), the least such minimum distance.
C12_SeparationByDrawnAngle ==
    relaxations = 0 =>
        /\ pc = "searching" =>
              /\ 2 * angle >= MaxAngle
              /\ 2 * angle <= 3 * MaxAngle
              /\ min_distance = (ChordLen(angle) * 9) \div 10
              /\ min_distance >= (ChordLen(MaxAngle \div 2) * 9) \div 10
        /\ Separated((ChordLen(MaxAngle \div 2) * 9) \div 10)

\* the sampler has returned at least three points without any leniency step,
\* two of them closer than the bound computed from the target angle
C12_Witness ==
    /\ pc = "voronoi"
    /\ relaxations = 0
    /\ Len(points) >= 3
    /\ ~Separated((ChordLen(MaxAngle) * 9) \div 10)

\* generate_points_poisson is running
Sampling == pc \in {"sampling", "searching"}

\* C13 as claimed: once a leniency step has been taken, neither the target
\* angle nor the minimum distance applied to candidates increases again, also
\* not for the points sampled later.
C13_NeverTightened ==
    [][(Sampling /\ relaxations >= 1) =>
          /\ max_angle' <= max_angle
          /\ min_distance' <= min_distance]_vars

\* C13 as amended: the target angle never increases while points are sampled;
\* a leniency step multiplies the target angle and the current point's minimum
\* distance by 0.9 and nothing else changes them during the search for one
\* point, so within that search the minimum distance never increases; the
\* angle of a later point is drawn from the reduced target angle (at most 1.5
\* times it), and its minimum distance is computed anew from that angle, so it
\* may exceed the minimum distance the previous search ended with.
C13_TargetAngleNeverRaised ==
    [][Sampling =>
          /\ max_angle' <= max_angle
          /\ relaxations' \in {relaxations, relaxations + 1}
          /\ relaxations' = relaxations + 1 =>
                /\ pc = "searching"
                /\ max_angle' = (max_angle * 9) \div 10
                /\ min_distance' = (min_distance * 9) \div 10
          /\ relaxations' = relaxations =>
                /\ max_angle' = max_angle
                /\ pc = "searching" => min_distance' = min_distance
          /\ pc = "searching" => min_distance' <= min_distance /\ angle' = angle
          /\ (pc = "sampling" /\ pc' = "searching") =>
                /\ 2 * angle' <= 3 * max_angle
                /\ min_distance' = (ChordLen(angle') * 9) \div 10]_vars

\* the search for a later point starts after a leniency step has been taken
C13_Witness ==
    /\ pc = "searching"
    /\ iteration = 0
    /\ relaxations >= 1
    /\ max_angle < MaxAngle
    /\ min_distance > 0

\* C14: for every n >= 1 the sampling loop accepts n points and returns; a
\* search that has used up its iteration budget takes a leniency step and
\* goes on with the same point (it never ends in an error).
C14_SamplerTerminates ==
    /\ (pc = "generate_points" /\ n >= 1) ~> (pc = "voronoi" /\ Len(points) = n)
    /\ [][(pc = "searching" /\ iteration >= IterationLimit) =>
             /\ relaxations' = relaxations + 1
             /\ pc' \in {"searching", "sampling"}
             /\ Len(points') \in {Len(points), Len(points) + 1}
             /\ Len(points') = Len(points) => pc' = "searching" /\ iteration' = 1]_vars

\* the sampler has returned several points after leniency steps were needed
C14_Witness ==
    /\ pc = "voronoi"
    /\ n >= 3
    /\ Len(points) = n
    /\ relaxations >= 1

\* parameters with which new cannot produce a graph
InvalidParameters == max_neighbor_count = 0 \/ ClusterCount(n) = 0

\* C15: with invalid parameters (max_neighbor_count = 0, or a cluster count of
\* zero) new stops in the error state before any point is sampled: neither
\* the sampler nor the cluster partitioner has run, and no graph is returned.
C15_RejectedBeforeSampling ==
    InvalidParameters =>
        /\ pc \notin {"sampling", "searching", "voronoi", "connect", "scc", "done"}
        /\ points = <<>>
        /\ centroids = <<>>
        /\ clusters = <<>>

\* the generator of new after the chord and the offset were drawn, for seed s;
\* with n = 1 the sampler draws nothing, so this is also the generator from
\* which the clustering generator is forked in the run with n = 1
GeneratorAfterChord(s) == RandomRange(FromRng(FromSeed(s)).rng, 23).rng

\* C16: the random values a stage consumes do not change the values a later
\* stage sees: whatever the sampler drew, the generator from which the
\* clustering generator is forked, and the generator the connection stage
\* starts with, are those of the run with the same seed in which the sampler
\* drew nothing.
C16_StagesIsolated ==
    /\ pc = "voronoi" => rng = GeneratorAfterChord(seed)
    /\ (pc = "connect" /\ ci = 0 /\ pi = 0) =>
          rng = FromRng(GeneratorAfterChord(seed)).rng

\* C17: the chord and the semitone offset are drawn before any point is
\* sampled and depend on the seed alone (not on n or max_neighbor_count); the
\* chord is one of the NumChords variants and is drawn from a fork, so the
\* offset and the generator the sampler starts with come from the parent after
\* the fork whatever the number of variants; the offset is in -11..11.
C17_ChordBeforePoints ==
    /\ pc = "start" => points = <<>> /\ tree = <<>>
    /\ pc # "start" =>
          /\ chord = RandomRange(FromRng(FromSeed(seed)).child, NumChords).val
          /\ chord \in 0..(NumChords - 1)
          /\ semitone_offset = RandomRange(FromRng(FromSeed(seed)).rng, 23).val - 11
          /\ semitone_offset \in (0 - 11)..11
    /\ pc = "generate_points" =>
          /\ points = <<>>
          /\ rng = GeneratorAfterChord(seed)

\* a chord other than the first and a non-zero offset are there and no point
\* has been sampled
C17_Witness ==
    /\ pc = "generate_points"
    /\ n >= 2
    /\ points = <<>>
    /\ chord >= 1
    /\ semitone_offset # 0

----------------------------------------------------------------------------
(* The shell: forked generators and the future of the worker *)

\* the root generator after point_rng has been forked from it
RootAfterFork(s) == FromRng(CreateRngFromSeedAndState(s)).rng

\* C18: the generator of the worker is the fork taken from the root generator
\* before the worker starts; the worker never touches the root generator, so
\* while the worker runs and after its result has arrived the root generator
\* is where the fork left it, and the island generator forked from it later
\* is a function of the seed alone, whatever generation drew and however the
\* polls of the main thread interleave with the worker.
C18_RootGeneratorForked ==
    /\ worker \in {"queued", "running", "sent", "warned", "unwound", "aborted"}
          => shell # "ready"
    /\ (worker = "queued" \/ pc = "start")
          => rng = FromRng(CreateRngFromSeedAndState(seed)).child
    /\ shell \in {"awaiting", "resolved", "discarded", "expect_failed"}
          => root_rng = RootAfterFork(seed)
    /\ shell = "island_data"
          => /\ island_rng = FromRng(RootAfterFork(seed)).child
             /\ root_rng = FromRng(RootAfterFork(seed)).rng

\* the island generator has been forked after a generation of three points
\* that drew values, and after the main thread polled while the worker ran
C18_Witness ==
    /\ shell = "island_data"
    /\ Len(points) >= 3
    /\ rng # FromRng(CreateRngFromSeedAndState(seed)).child
    /\ polls >= 1

\* the closure has finished: it returned and the send was attempted, or it
\* panicked and was unwound
ClosureFinished == worker \in {"sent", "warned", "unwound", "aborted"}

\* the closure panicked and the process has come to its end
PanicSettled == pc = "panic" /\ worker = "aborted"

\* the parts of the contract of spawn_rayon_with_result that do not concern a
\* panic: Ok carries the result of the closure, the future does not resolve
\* before the closure has finished, and a discarded future leaves the worker
\* running to a send that fails without a crash
FutureOfReturningClosure ==
    /\ received.state = "ok"
          => /\ pc = "done"
             /\ worker = "sent"
             /\ received.value = Result
    /\ received.state # "pending" => ClosureFinished
    /\ worker = "warned" => (shell = "discarded" /\ pc = "done")
    /\ (shell = "discarded" /\ pc = "done") => worker \in {"running", "sent", "warned"}

\* C19: the future of spawn_rayon_with_result resolves to Ok(result) if the
\* closure returns and to Err(RecvError) if the closure panics, never before
\* the closure has finished; a discarded future does not stop or crash the
\* worker.
C19_FutureResolves ==
    /\ FutureOfReturningClosure
    /\ (PanicSettled /\ shell # "discarded") => received.state = "err"

----------------------------------------------------------------------------
(* The acceptance rule of the sampler *)

\* the candidate that the next pass of the inner loop computes
NextCandidate ==
    LET parent_idx == RandomRange(rng, Len(points))
    IN Rotate(parent_idx.rng, At(points, parent_idx.val), angle).val

\* no point of ps is closer to q than l
NoneWithin(ps, q, l) ==
    \A i \in DOMAIN ps : ~CloserThan(Dist2(ps[i], q), l)

\* the index holds exactly the points, each under its position as id
IndexMatchesPoints ==
    /\ Len(tree) = Len(points)
    /\ \A i \in DOMAIN points : tree[i] = <<points[i], i - 1>>

\* one pass of the inner loop accepts its candidate exactly if no point is
\* within the minimum distance in force in that pass; an accepted candidate is
\* appended to the points and to the index, a rejected one changes neither
AcceptanceStep ==
    pc = "searching" =>
       IF NoneWithin(points, NextCandidate, min_distance')
       THEN /\ points' = Append(points, NextCandidate)
            /\ tree' = Append(tree, <<NextCandidate, Len(points)>>)
            /\ NoneWithin(points, points'[Len(points')], min_distance')
       ELSE UNCHANGED <<points, tree>>

\* C20: the first point is the pole under id 0; a candidate is accepted if
\* and only if no point of the index is within the minimum distance in force;
\* an accepted candidate enters the index under its position in the output.
\* So the index always holds exactly the accepted points, and every point is
\* at least the minimum distance in force at its acceptance away from every
\* earlier point.
C20_AcceptanceRule ==
    /\ [](Sampling => (IndexMatchesPoints /\ tree[1] = <<StartPoint, 0>>))
    /\ [][AcceptanceStep]_vars

\* a third point has just been accepted under a minimum distance that a
\* leniency step had reduced during its search
C20_Witness ==
    /\ pc = "sampling"
    /\ Len(points) >= 3
    /\ Len(tree) = Len(points)
    /\ relaxations >= 1
    /\ min_distance < InitialMinDistance(angle)

----------------------------------------------------------------------------
(* The relaxation step of the sampler *)

\* a new point is begun: its angle is drawn
BeginsPoint == pc = "sampling" /\ pc' = "searching"

\* the pass of the inner loop about to run takes a leniency step
BudgetUsedUp == pc = "searching" /\ iteration >= IterationLimit

\* one pass of the inner loop as far as the counter, the minimum distance and
\* the two angles go
RelaxationStep ==
    /\ BeginsPoint => iteration' = 0
    /\ pc = "searching" =>
          /\ angle' = angle
          /\ Len(points') = Len(points) + 1 \/ points' = points
          /\ IF iteration = IterationLimit
             THEN /\ relaxations' = relaxations + 1
                  /\ min_distance' = (min_distance * 9) \div 10
                  /\ max_angle' = (max_angle * 9) \div 10
                  /\ iteration' = IF points' = points THEN 1 ELSE 0
             ELSE /\ UNCHANGED <<relaxations, min_distance, max_angle>>
                  /\ iteration' = IF points' = points THEN iteration + 1
                                                      ELSE iteration

\* C21: the rejection counter starts at 0 for each new point and counts the
\* rejections for that point; a leniency step is taken exactly when 1000
\* rejections have accumulated since the counter was last 0, it multiplies the
\* minimum distance and the target angle by 0.9 and resets the counter; with
\* fewer than 1000 rejections neither value changes, and the angle drawn for
\* the point is never changed by the search.
C21_RelaxationStep ==
    /\ [](Sampling => iteration \in 0..IterationLimit)
    /\ [][RelaxationStep]_vars

\* a search took a leniency step and its candidate of that pass was rejected:
\* the counter is at 1 again, under a reduced minimum distance and target angle
C21_Witness ==
    /\ pc = "searching"
    /\ relaxations >= 1
    /\ iteration = 1
    /\ min_distance = Relaxed(InitialMinDistance(angle))
    /\ max_angle = Relaxed(MaxAngle)
    /\ Len(points) >= 2

----------------------------------------------------------------------------
(* The connection of one point to its nearest neighbours *)

\* the points of the cluster being connected
CurrentCluster == At(clusters, ci).pts

PairwiseDistinct(ps) == \A i, j \in DOMAIN ps : i # j => ps[i] # ps[j]

\* an edge joins a and b, in either direction
Linked(g, a, b) ==
    \E e \in DOMAIN g.edges : g.edges[e] = <<a, b>> \/ g.edges[e] = <<b, a>>

\* S is a set of c points of ps other than point i, none of them farther from
\* point i than a point left out
NearestOthers(S, ps, i, c) ==
    LET others == (0..(Len(ps) - 1)) \ {i}
    IN /\ S \subseteq others
       /\ Cardinality(S) = c
       /\ \A j \in S : \A l \in others \ S :
             Dist2(At(ps, j), At(ps, i)) <= Dist2(At(ps, l), At(ps, i))

\* the step that processes point pi of the current cluster
ConnectStep ==
    (pc = "connect" /\ pi' = pi + 1) =>
       LET ps == CurrentCluster
           m == Len(ps)
           d == neighbor_count'
           old == Len(graph.edges)
           added == (old + 1)..Len(graph'.edges)
       IN /\ 1 <= d
          /\ d <= max_neighbor_count
          /\ d <= 3
          /\ graph'.nodes = graph.nodes
          /\ SubSeq(graph'.edges, 1, old) = graph.edges
          /\ PairwiseDistinct(ps) =>
                \E S \in SUBSET (0..(m - 1)) :
                   /\ NearestOthers(S, ps, pi, Min(d, m - 1))
                   /\ \A j \in S : Linked(graph', pi, j)
                   /\ \A e \in added :
                         /\ graph'.edges[e][1] = pi
                         /\ graph'.edges[e][2] \in S
                         /\ ~Linked(graph, pi, graph'.edges[e][2])
                   /\ \A e, f \in added :
                         e # f => graph'.edges[e] # graph'.edges[f]

\* C22: the drawn neighbour count d is at least 1, at most max_neighbor_count
\* and at most 3; once a point of a cluster of m pairwise distinct points is
\* processed it is adjacent to each of its min(d, m - 1) nearest other points
\* of the cluster, and the only edges added are edges from it to those of
\* them it was not adjacent to.
C22_ConnectsNearest == [][ConnectStep]_vars

\* the third point of a cluster of four has been processed with a maximum of
\* 4 and a drawn count of 2: fewer neighbours than other points
C22_Witness ==
    /\ pc = "connect"
    /\ max_neighbor_count = 4
    /\ ci < Len(clusters)
    /\ Len(CurrentCluster) = 4
    /\ pi = 3
    /\ neighbor_count = 2
    /\ Len(graph.edges) >= 3

----------------------------------------------------------------------------
(* The cluster count and the centroids *)

MaxCountN == 46

\* c is the least number of clusters of at most 15 points that hold m points
CeilOfFifteenth(c, m) == 15 * (c - 1) < m /\ m <= 15 * c

\* C23: for every n >= 1 the partitioner is called with k = ceil(n / 15),
\* which lies in 1..n; the k centroids are k distinct input points; with
\* pairwise distinct points exactly k clusters are returned, each of them
\* non-empty and holding its own centroid.
C23_ClusterCountAndCentroids ==
    /\ \A m \in 1..MaxCountN :
          ClusterCount(m) \in 1..m /\ CeilOfFifteenth(ClusterCount(m), m)
    /\ pc # "panic"
    /\ pc \in {"voronoi", "connect"} => (k \in 1..n /\ CeilOfFifteenth(k, n))
    /\ (pc = "connect" /\ PairwiseDistinct(points)) =>
          /\ Len(centroids) = k
          /\ PairwiseDistinct(centroids)
          /\ Range(centroids) \subseteq Range(points)
          /\ Len(clusters) = k
          /\ {clusters[c].centroid : c \in DOMAIN clusters} = Range(centroids)
          /\ \A c \in DOMAIN clusters :
                /\ clusters[c].pts # <<>>
                /\ clusters[c].centroid \in Range(clusters[c].pts)

\* sixteen distinct points have been partitioned into two clusters
C23_Witness ==
    /\ pc = "connect"
    /\ n = 16
    /\ k = 2
    /\ Len(clusters) = 2
    /\ centroids[1] # centroids[2]

----------------------------------------------------------------------------
(* The ticks of the ticker thread *)

\* the counters of a Tick are in range and total_ticks is their weighted sum
TickInRange(t) ==
    t.sent =>
       /\ t.ticks_per_beat = 4
       /\ t.beats_per_bar = 4
       /\ t.tick \in 0..(t.ticks_per_beat - 1)
       /\ t.beat \in 0..(t.beats_per_bar - 1)
       /\ t.bar >= 0
       /\ t.total_ticks = (t.bar * t.beats_per_bar + t.beat) * t.ticks_per_beat
                             + t.tick

\* u is the Tick that follows t: one tick later, the tick wrapping into the
\* beat and the beat into the bar
FollowsTick(t, u) ==
    /\ u.total_ticks = t.total_ticks + 1
    /\ IF t.tick < 3
       THEN u.tick = t.tick + 1 /\ u.beat = t.beat /\ u.bar = t.bar
       ELSE /\ u.tick = 0
            /\ IF t.beat < 3
               THEN u.beat = t.beat + 1 /\ u.bar = t.bar
               ELSE u.beat = 0 /\ u.bar = t.bar + 1

\* a step that sends a Tick sends the first one or the one that follows
SendsNextTick ==
    last_sent' # last_sent =>
       /\ last_sent'.sent
       /\ IF last_sent.sent
          THEN FollowsTick(last_sent, last_sent')
          ELSE /\ last_sent'.tick = 0
               /\ last_sent'.beat = 0
               /\ last_sent'.bar = 0
               /\ last_sent'.total_ticks = 0

\* C24: in every Tick sent, tick and beat are in 0..3 and total_ticks =
\* (bar * beats_per_bar + beat) * ticks_per_beat + tick; the first Tick sent
\* has all counters 0, and each Tick sent after it has total_ticks one greater
\* than the one before, with tick wrapping into beat and beat into bar.
C24_TickCounters ==
    /\ [](TickInRange(last_sent) /\ TickInRange(tick_channel))
    /\ [][SendsNextTick]_vars

\* the first Tick of the third bar has been sent, and a receiver holds it
C24_Witness ==
    /\ last_sent.sent
    /\ last_sent.total_ticks = 32
    /\ last_sent.bar = 2
    /\ last_sent.beat = 0
    /\ last_sent.tick = 0
    /\ tick_channel = last_sent

----------------------------------------------------------------------------
(* The BPM protocol of the ticker thread *)

\* the step at the top of the loop of beat_emitter
DrainsBpm == ticker = "loop" /\ ticker' = "sleeping"

\* the drain empties the channel; the value sent last (the bpm field holds
\* it) sets the interval, and without a pending value the interval stays;
\* no other step of the running ticker changes the interval
BpmStep ==
    /\ DrainsBpm =>
          /\ bpm_channel' = <<>>
          /\ IF bpm_channel = <<>>
             THEN interval' = interval
             ELSE interval' = 60000 \div (bpm * 4)
    /\ (ticker = "sleeping" \/ ticker = "unspawned") => interval' = interval
    /\ ticker \in {"loop", "sleeping"} =>
          \A i \in DOMAIN bpm_channel' :
             i <= Len(bpm_channel) => bpm_channel'[i] = bpm_channel[i]

\* C25: no Tick is sent before set_bpm_internal has been called; at each tick
\* the emitter takes all pending values from the channel and uses the one
\* sent last, so that no older value is applied afterwards; with no pending
\* value the interval stays as it is.
C25_BpmProtocol ==
    /\ [](last_sent.sent => bpm_sends >= 1)
    /\ [](ticker \in {"loop", "sleeping"} => bpm_sends >= 1)
    /\ [](ticker = "sleeping" => (bpm_channel = <<>> => interval = 60000 \div (bpm * 4)))
    /\ [][BpmStep]_vars

\* between two ticks two different values were sent; the drain took both and
\* the interval is that of the second
C25_Witness ==
    /\ ticker = "sleeping"
    /\ last_sent.sent
    /\ drained = 2
    /\ bpm_channel = <<>>
    /\ bpm = MaxBpm
    /\ interval = Interval(MaxBpm)

----------------------------------------------------------------------------
(* Overlapping plays on one node *)

SomeTweenRunning == \E t \in 1..MaxPlays : tweens[t] = "running"

\* the play that the executor runs next
RunningPlay == Head(run_queue)

\* a step that stops the node is taken by a play whose token is cancelled,
\* or at a time when no tween is running any more
StopsOnlyAtTheEnd ==
    (active /\ ~active') =>
       /\ frame = "process"
       /\ run_queue # <<>>
       /\ \/ plays[RunningPlay].token \in cancelled
          \/ ~SomeTweenRunning

\* C26: whatever the order in which overlapping plays of one node start, end
\* and are cancelled, the assertion that no tween is stored when the new one
\* is installed holds; a play whose tween a later play has killed does not
\* stop the node while the tween of the later play runs: the node is stopped
\* only when the latest tween has finished or a panic token is cancelled.
C26_OverlappingPlays ==
    /\ [](~assert_failed)
    /\ []((cancelled = {} /\ SomeTweenRunning) => active)
    /\ []((amplitude_tween # 0 /\ cancelled = {}) => tweens[amplitude_tween] \in {"running", "finished"})
    /\ [][StopsOnlyAtTheEnd]_vars

\* the tween of the first play was killed by the second play, whose own tween
\* then finished and stopped the node; the first play still waits; the panic
\* button was not pressed
C26_Witness ==
    /\ plays[1].state = "awaiting"
    /\ tweens[1] = "killed"
    /\ plays[2].state = "done"
    /\ tweens[2] = "finished"
    /\ ~active
    /\ cancelled = {}

----------------------------------------------------------------------------
(* Clusters and islands *)

\* the clusters that hold the position of node v of the merged graph
ClustersOfNode(v) ==
    {c \in DOMAIN clusters : At(supergraph.nodes, v) \in Range(clusters[c].pts)}

\* the nodes of the merged graph that came from cluster c
NodesOfCluster(c) == {v \in Nodes(supergraph) : c \in ClustersOfNode(v)}

\* S is a range a..b of indices
Contiguous(S) ==
    \A a, b \in S : \A v \in Nodes(supergraph) : (a < v /\ v < b) => v \in S

\* C28: in the merged graph of pairwise distinct points every node comes from
\* exactly one cluster, every edge joins two nodes of the same cluster, the
\* nodes of one cluster are a contiguous range of indices, every island lies
\* in one cluster, and there are at least as many islands as clusters.
C28_NoInterClusterEdges ==
    (Merged /\ PairwiseDistinct(points)) =>
        /\ \A v \in Nodes(supergraph) : Cardinality(ClustersOfNode(v)) = 1
        /\ \A e \in DOMAIN supergraph.edges :
              ClustersOfNode(supergraph.edges[e][1]) =
                  ClustersOfNode(supergraph.edges[e][2])
        /\ \A c \in DOMAIN clusters : Contiguous(NodesOfCluster(c))
        /\ pc = "done" =>
              /\ \A i \in DOMAIN islands :
                    \E c \in DOMAIN clusters :
                        Range(islands[i]) \subseteq NodesOfCluster(c)
              /\ Len(islands) >= Len(clusters)

C28_Witness ==
    /\ pc = "done"
    /\ PairwiseDistinct(points)
    /\ Len(clusters) = 2
    /\ Len(islands) = 2
    /\ \A c \in DOMAIN clusters : Cardinality(NodesOfCluster(c)) = 2
    /\ \A c \in DOMAIN clusters :
          \E e \in DOMAIN supergraph.edges :
              supergraph.edges[e][1] \in NodesOfCluster(c)

\* node v is an island of size 1
Isolated(v) == \E i \in DOMAIN islands : islands[i] = <<v>>

----------------------------------------------------------------------------
(* graph_walk.rs: one walk over the graph that new has returned to ready   *)
(* (called with max_neighbor_count = 3). The branches of a walk are        *)
(* futures of one task, joined by join_all: a poll of the task polls the   *)
(* branches in order, each until it is pending; input events run on the    *)
(* same thread, so between polls; the ticker thread sends its Ticks at any *)
(* time. The tween that animates the edge is left out: it changes nothing  *)
(* the walk reads.                                                         *)

MaxWalkN == 3
MaxWalkSeed == 1
MaxUnread == 1
MaxBeats == 2
MaxVisits == 3

\* let radius = 5.0 (the lattice of the model has radius Radius)
WorldRadius == 5

\* ready calls new with max_neighbor_count = 3
InitWalk ==
    /\ n \in 0..MaxWalkN
    /\ max_neighbor_count = 3
    /\ seed \in 0..MaxWalkSeed
    /\ rng = FromSeed(seed)
    /\ pc = "start"
    /\ run = 1
    /\ first = NoResult
    /\ Fresh
    /\ NoShell
    /\ NoTicker
    /\ NoPlays
    /\ NoWalk

\* ready has stored the graph that new returned and set is_accepting_input;
\* the handlers of input events run while no task is polled
AcceptingInput == pc = "done" /\ polling = 0

Dot(p, q) == p[1] * q[1] + p[2] * q[2] + p[3] * q[3]

Diff(p, q) == <<p[1] - q[1], p[2] - q[2], p[3] - q[3]>>

\* round_to_nearest_pow2_f64(length * 8.0).clamp(0.0, 16.0) as usize, from
\* the squared length d2 in lattice units: with x the length times 8, the
\* exponent log2(x) is rounded to the nearest integer, so the result doubles
\* where x * x passes 2 * 4^e; a power below 1 is truncated to 0
DistRounded(d2) ==
    LET num == 64 * WorldRadius * WorldRadius * d2  \* x * x = num / den
        den == Radius * Radius
    IN IF d2 <= 0 THEN 1
       ELSE IF 2 * num < den THEN 0
       ELSE IF num < 2 * den THEN 1
       ELSE IF num < 8 * den THEN 2
       ELSE IF num < 32 * den THEN 4
       ELSE IF num < 128 * den THEN 8
       ELSE 16

\* the dot product of last_diff (from node last to node v) with the
\* difference from v to its neighbour x
DotTo(g, last, v, x) ==
    Dot(Diff(At(g.nodes, v), At(g.nodes, last)),
        Diff(At(g.nodes, x), At(g.nodes, v)))

\* last_dir.dot(dir) of neighbour x is less than that of neighbour y: the dot
\* products with the normalized directions to x and to y are compared
\* (a / sqrt(A) < b / sqrt(B), with A and B the squared distances from v)
DotLess(g, last, v, x, y) ==
    IF DotTo(g, last, v, x) >= 0 /\ DotTo(g, last, v, y) >= 0
    THEN DotTo(g, last, v, x) * DotTo(g, last, v, x)
                 * Dist2(At(g.nodes, y), At(g.nodes, v))
             < DotTo(g, last, v, y) * DotTo(g, last, v, y)
                   * Dist2(At(g.nodes, x), At(g.nodes, v))
    ELSE IF DotTo(g, last, v, x) < 0 /\ DotTo(g, last, v, y) < 0
    THEN DotTo(g, last, v, x) * DotTo(g, last, v, x)
                 * Dist2(At(g.nodes, y), At(g.nodes, v))
             > DotTo(g, last, v, y) * DotTo(g, last, v, y)
                   * Dist2(At(g.nodes, x), At(g.nodes, v))
    ELSE DotTo(g, last, v, x) < 0

\* neighs.iter().max_by_key(..): the last of the neighbours with the greatest
\* key
MaxByKey(g, last, v, neighs) ==
    LET best == CHOOSE i \in DOMAIN neighs :
                    /\ \A j \in DOMAIN neighs :
                          ~DotLess(g, last, v, neighs[i], neighs[j])
                    /\ \A j \in DOMAIN neighs :
                          j > i => DotLess(g, last, v, neighs[j], neighs[i])
    IN neighs[best]

\* every neighbour is a next node, whatever the walker came from
NextNodeIdxesAll(g, v, last) == Neighbors(g, v)

\* next_node_idxes: all neighbours for the first node (last = -1 stands for
\* last_diff = None); for a walker that came over an edge none when the node
\* has at most one neighbour, else the neighbour that best keeps the direction
NextNodeIdxes(g, v, last) ==
    LET neighs == Neighbors(g, v)
    IN IF last = -1 THEN neighs
       ELSE IF Len(neighs) <= 1 THEN <<>>
       ELSE <<MaxByKey(g, last, v, neighs)>>

\* the futures pushed for the next nodes: each has a receiver of its own and
\* the number of ticks it waits on its edge, which the model cuts down to
\* MaxBeats
Futures(g, v, nexts) ==
    [i \in DOMAIN nexts |->
        [last |-> v, node_idx |-> nexts[i],
         beats |-> Min(DistRounded(Dist2(At(g.nodes, nexts[i]),
                                         At(g.nodes, v))), MaxBeats),
         unread |-> 0]]

\* the branch polled after the step: branch b if there is one, else the poll
\* is over
Cursor(b, ws) == IF b <= Len(ws) THEN b ELSE 0

\* walk_node(node_idx = v, last_diff from node last) is called in place b
\* while the branches before and after wait: the cancelling flag is read and
\* cleared, the play is spawned, the next nodes are chosen; the call returns
\* at once if the flag was set or there is no next node, else its futures are
\* polled next; the join is complete when no branch is left, and graph_walk
\* returns
WalkNode(v, last, before, after) ==
    /\ cancelling' = cancelling \ {v}
    /\ visit' = [node_idx |-> v, last |-> last, play |-> TRUE,
                 nth |-> 1 - visit.nth]
    /\ visits' = Min(visits + 1, MaxVisits)
    /\ LET nexts == NextNodeIdxes(supergraph, v, last)
           futures == IF v \in cancelling THEN <<>>
                      ELSE Futures(supergraph, v, nexts)
       IN /\ walkers' = before \o futures \o after
          /\ polling' = Cursor(Len(before) + 1, before \o futures \o after)
          /\ walk' = IF before \o futures \o after = <<>> THEN "finished"
                     ELSE "walking"

\* on_node_input_event, right button: toggle_cancelling
ToggleCancelling ==
    /\ AcceptingInput
    /\ \E v \in Nodes(supergraph) :
          cancelling' = IF v \in cancelling THEN cancelling \ {v}
                        ELSE cancelling \cup {v}
    /\ UNCHANGED <<walk, start_node, next_tick, ticks, walkers, polling,
                   is_cancelled, visit, visits>>
    /\ UNCHANGED <<rest_vars, tick_vars, play_vars>>

\* on_node_input_event, left button: the receiver is subscribed, the token is
\* cloned, the graph_walk task is spawned; the ticker is anywhere in its beat
StartWalk ==
    /\ AcceptingInput
    /\ walk = "none"
    /\ \E v \in Nodes(supergraph) : start_node' = v
    /\ \E t \in 0..(TicksPerBeat - 1) : next_tick' = t
    /\ walk' = "pending"
    /\ UNCHANGED <<ticks, walkers, polling, cancelling, is_cancelled, visit, visits>>
    /\ UNCHANGED <<rest_vars, tick_vars, play_vars>>

\* unhandled_input, "panic": the token that the walk holds is cancelled (the
\* graph gets a new one, which later walks clone)
PanicPressed ==
    /\ AcceptingInput
    /\ walk \in {"pending", "walking"}
    /\ ~is_cancelled
    /\ is_cancelled' = TRUE
    /\ UNCHANGED <<walk, start_node, next_tick, ticks, walkers, polling,
                   cancelling, visit, visits>>
    /\ UNCHANGED <<rest_vars, tick_vars, play_vars>>

\* beat_emitter: tx.send(Tick) reaches every receiver that is read; the tick
\* counter advances
BroadcastTick ==
    /\ walk \in {"pending", "walking"}
    /\ walk = "pending" => Len(ticks) < MaxUnread
    /\ \A b \in DOMAIN walkers : walkers[b].unread < MaxUnread
    /\ ticks' = IF walk = "pending" THEN Append(ticks, next_tick) ELSE ticks
    /\ walkers' = [b \in DOMAIN walkers |->
                      [walkers[b] EXCEPT !.unread = @ + 1]]
    /\ next_tick' = (next_tick + 1) % TicksPerBeat
    /\ UNCHANGED <<walk, start_node, polling, cancelling, is_cancelled, visit, visits>>
    /\ UNCHANGED <<rest_vars, tick_vars, play_vars>>

\* graph_walk: ticks.wait() returns a Tick; the loop ends on one with tick 0,
\* and walk_node is called for the clicked node without a last_diff
WaitFirstBeat ==
    /\ walk = "pending"
    /\ ticks # <<>>
    /\ ticks' = Tail(ticks)
    /\ IF Head(ticks) = 0
       THEN WalkNode(start_node, -1, <<>>, <<>>)
       ELSE UNCHANGED <<walk, walkers, polling, cancelling, visit, visits>>
    /\ UNCHANGED <<start_node, next_tick, is_cancelled>>
    /\ UNCHANGED <<rest_vars, tick_vars, play_vars>>

\* a receiver with an unread Tick or the cancelled token has woken the task:
\* the executor polls it, join_all polls the branches from the first on
PollWalk ==
    /\ walk = "walking"
    /\ polling = 0
    /\ \/ is_cancelled
       \/ \E b \in DOMAIN walkers : walkers[b].unread > 0
    /\ polling' = 1
    /\ UNCHANGED <<walk, start_node, next_tick, ticks, walkers, cancelling,
                   is_cancelled, visit, visits>>
    /\ UNCHANGED <<rest_vars, tick_vars, play_vars>>

\* wait_for_ticks_and_lerp_edge of the branch polled: select takes the tick;
\* after the last of its beats ticks (or at once when beats is 0) the wait
\* returns true and walk_node is called for the next node
WalkerStep ==
    /\ polling > 0
    /\ LET b == polling
           w == walkers[b]
       IN /\ w.beats = 0 \/ w.unread > 0
          /\ IF w.beats <= 1
             THEN WalkNode(w.node_idx, w.last, SubSeq(walkers, 1, b - 1),
                           SubSeq(walkers, b + 1, Len(walkers)))
             ELSE /\ walkers' = [walkers EXCEPT ![b] =
                                    [w EXCEPT !.beats = @ - 1, !.unread = @ - 1]]
                  /\ UNCHANGED <<walk, polling, cancelling, visit, visits>>
    /\ UNCHANGED <<start_node, next_tick, ticks, is_cancelled>>
    /\ UNCHANGED <<rest_vars, tick_vars, play_vars>>

\* wait_for_ticks_and_lerp_edge of the branch polled: select takes
\* cancelled(), the wait returns false and the branch returns ("walker
\* cancelled")
WalkerCancelled ==
    /\ polling > 0
    /\ is_cancelled
    /\ LET b == polling
           rest == SubSeq(walkers, 1, b - 1)
                       \o SubSeq(walkers, b + 1, Len(walkers))
       IN /\ walkers[b].beats > 0
          /\ walkers' = rest
          /\ polling' = Cursor(b, rest)
          /\ walk' = IF rest = <<>> THEN "finished" ELSE "walking"
    /\ UNCHANGED <<start_node, next_tick, ticks, cancelling, is_cancelled,
                   visit, visits>>
    /\ UNCHANGED <<rest_vars, tick_vars, play_vars>>

\* wait_for_ticks_and_lerp_edge of the branch polled: neither the tick nor
\* the token is ready, the branch is pending and join_all polls the next one
WalkerPending ==
    /\ polling > 0
    /\ ~is_cancelled
    /\ walkers[polling].beats > 0
    /\ walkers[polling].unread = 0
    /\ polling' = Cursor(polling + 1, walkers)
    /\ UNCHANGED <<walk, start_node, next_tick, ticks, walkers, cancelling,
                   is_cancelled, visit, visits>>
    /\ UNCHANGED <<rest_vars, tick_vars, play_vars>>

\* the ticker of a model that follows a walk for MaxVisits calls of walk_node
BroadcastTickBounded ==
    /\ visits < MaxVisits
    /\ BroadcastTick

NextWalk ==
    \/ Next
    \/ ToggleCancelling
    \/ StartWalk
    \/ PanicPressed
    \/ BroadcastTickBounded
    \/ WaitFirstBeat
    \/ PollWalk
    \/ WalkerStep
    \/ WalkerCancelled
    \/ WalkerPending

SpecWalk == InitWalk /\ [][NextWalk]_vars

\* the neighbours of node v in the graph
NeighborSet(v) == {x \in Nodes(supergraph) : Adjacent(supergraph, v, x)}

\* the number of branches of ws that wait on the edge from f to t
BranchesOn(ws, f, t) ==
    Cardinality({b \in DOMAIN ws : ws[b].last = f /\ ws[b].node_idx = t})

\* walk_node is called in this step
Called == visit' # visit

\* a step that calls walk_node for node v: for the first node the task was
\* waiting for the beat; otherwise the branch polled has waited for all the
\* ticks of its edge to v. The play is spawned and the flag of v is cleared.
\* If the flag was set no branch starts; else the first node starts one
\* branch to each neighbour, and a node reached over an edge starts none when
\* it has at most one neighbour and exactly one, to a neighbour, otherwise
VisitRule ==
    Called =>
        LET v == visit'.node_idx
            f == visit'.last
            started(x) == BranchesOn(walkers', v, x) - BranchesOn(walkers, v, x)
            to == {x \in Nodes(supergraph) : started(x) # 0}
        IN /\ visit'.play
           /\ cancelling' = cancelling \ {v}
           /\ \A x \in to : started(x) = 1
           /\ IF f = -1
              THEN /\ walk = "pending"
                   /\ v = start_node
                   /\ Len(walkers') = Cardinality(to)
              ELSE /\ polling > 0
                   /\ walkers[polling].node_idx = v
                   /\ walkers[polling].last = f
                   /\ walkers[polling].beats <= 1
                   /\ walkers[polling].beats = 1 => walkers[polling].unread >= 1
                   /\ Len(walkers') = Len(walkers) - 1 + Cardinality(to)
           /\ IF v \in cancelling THEN to = {}
              ELSE IF f = -1 THEN to = NeighborSet(v)
              ELSE IF Cardinality(NeighborSet(v)) <= 1 THEN to = {}
              ELSE Cardinality(to) = 1 /\ to \subseteq NeighborSet(v)

\* a step in which a branch ends without a call of walk_node: the token is
\* cancelled, the branch polled was still waiting on its edge, it is gone and
\* nothing else has changed
InterruptRule ==
    (Len(walkers') < Len(walkers) /\ ~Called) =>
        /\ is_cancelled
        /\ polling > 0
        /\ walkers[polling].beats > 0
        /\ walkers' = SubSeq(walkers, 1, polling - 1)
                          \o SubSeq(walkers, polling + 1, Len(walkers))
        /\ cancelling' = cancelling

\* C27: the step rules of a walk. The first node of a walk branches to all of
\* its neighbours; a walker that arrived over an edge stops at a node with at
\* most one neighbour and otherwise continues to exactly one neighbour; a
\* walker that finds the cancelling flag of its node set clears it, has the
\* node played and goes no further; a branch whose wait the panic token
\* interrupts ends without visiting its next node.
C27_WalkStepRules == [][VisitRule /\ InterruptRule]_vars

\* a walker has arrived over an edge at a node with two or more neighbours
\* and waits on the edge to one of them, while a second branch of the walk
\* is still on its way
C27_Witness ==
    /\ walk = "walking"
    /\ visit.last # -1
    /\ Cardinality(NeighborSet(visit.node_idx)) >= 2
    /\ \E x \in NeighborSet(visit.node_idx) :
          BranchesOn(walkers, visit.node_idx, x) = 1
    /\ Len(walkers) = 2

----------------------------------------------------------------------------
(* A walk without the panic button and without cancelling flags: the       *)
(* ticker thread never stops sending, and the executor is ticked in every  *)
(* frame and runs the walk task whenever it has been woken                 *)

NextFairWalk ==
    \/ Next
    \/ StartWalk
    \/ BroadcastTick
    \/ WaitFirstBeat
    \/ PollWalk
    \/ WalkerStep
    \/ WalkerPending

\* the steps of the walk task
WalkTask == WaitFirstBeat \/ PollWalk \/ WalkerStep \/ WalkerPending

FairWalk ==
    /\ InitWalk
    /\ [][NextFairWalk]_vars
    /\ WF_vars(BroadcastTick)
    /\ WF_vars(WalkTask)

\* the graph has no cycle: it has as many edges as nodes less islands
Forest == Len(supergraph.edges) = Len(supergraph.nodes) - Len(islands)

\* on a graph without a cycle every walk finishes
ForestWalkFinishes == (walk = "pending" /\ Forest) ~> (walk = "finished")

====
